---- MODULE Spec2Model ----
(***************************************************************************)
(* Verification model of the L1 recovery core and of the node framework's  *)
(* service of zksync-era:                                                  *)
(*   - processor/genesis.rs      process_raw_entries,                      *)
(*                               reconstruct_genesis_state,                *)
(*                               get_genesis_factory_deps,                 *)
(*                               get_genesis_state                         *)
(*   - l1_fetcher/l1_fetcher.rs  parse_calldata, parse_commit_block_info,  *)
(*                               retry_call, get_blocks_to_process         *)
(*   - node_framework/src/service/mod.rs  ZkStackService                   *)
(*   - node_framework/.../eth_sender/manager.rs  EthTxManagerLayer::wire   *)
(*   - circuit_prover_service/.../witness_vector_generator_job_saver.rs    *)
(*                               WitnessVectorGeneratorJobSaver            *)
(* Each component has its own specification (SpecRaw, SpecDump,            *)
(* SpecGenesis, SpecParse, SpecFetch, SpecFetchFair, SpecRetry,            *)
(* SpecService, SpecWire, SpecSaver); the variables of the other           *)
(* components stay idle.                                                   *)
(***************************************************************************)
EXTENDS Integers, Sequences, FiniteSets, TLC

VARIABLES
    \* process_raw_entries: the argument and the outcome of the call
    block_batched_accesses, raw_result,
    \* reconstruct_genesis_state: the lines of the raw dump file
    dump,
    \* the system contracts and the base system contracts on disk, what
    \* get_genesis_factory_deps returned, and what every call of
    \* get_genesis_state returned
    contracts, base_system_contracts, genesis_factory_deps, genesis_states,
    \* parse_calldata: the arguments and the outcome of the call
    protocol_versioning, l1_block_number, calldata, parse_result,
    \* L1Fetcher: the configuration, the arguments of get_blocks_to_process,
    \* its position (pc, panic message) and its locals
    block_step, config_versioning, start_block, end_block, pc, panic,
    current_block, filter_to_block, windows, filters, result, priority_txs,
    priority_txs_so_far,
    last_processed_priority_tx, factory_deps_hashes,
    \* the commit logs of the window still to process, the transaction fetched
    \* for the current log, its decoded blocks still to merge (the first one is
    \* `block`), the iterations done of the loop over its priority operations,
    \* and the calls of parse_calldata made by the latest process_tx_data
    logs_left, tx, blocks, ops_done, parse_calls,
    \* the L1 contract's next priority serial id
    next_serial_id,
    \* history: the log filters built so far (filters), every batch as
    \* decoded, and every consumption of a priority
    \* transaction (queue index, serial id, position of the consuming batch)
    decoded, consumed,
    \* history: where every decoded batch came from (the window, the commit
    \* logs of the window that were left, the position in the calldata array)
    origins,
    \* one logical request to the L1 client: the call site, how it ended, the
    \* attempt of its retry_call, the attempt of the retry_call nested in
    \* get_transaction_by_hash, the requests sent to the client and the
    \* backoff sleeps so far
    call_site, call_result, attempt, inner_attempt, requests, sleeps,
    \* ZkStackService: the layers added, the setup hook, the position of run
    \* (run_pc), the layers taken by run and how many of them were wired, the
    \* wiring errors, the tasks added, whether the resources were told that
    \* wiring is complete, the value of the stop signal, the join handles (the
    \* task each one belongs to), the position of the spawn loop, what
    \* select_all returned (idx, failure, task_name), the state of every
    \* after_node_shutdown hook and what run returned
    layers, setup_hook, run_pc, wiring_layers, wired, errors, tasks,
    resources_wired, stop_signal, join_handles, spawn_next, idx, failure,
    task_name, shutdown_hooks, run_result,
    \* what the future of the setup hook resolved to
    setup_result,
    \* the execution of every task ("unstarted", "running", "finished") and
    \* its outcome
    task_state, task_outcome,
    \* history: the layers in the order wire was invoked on them, the calls of
    \* the setup hook, how often every task was started and by whom, and the
    \* tasks in the order they finished
    wire_order, setup_calls, starts, finish_order,
    \* EthTxManagerLayer: the configuration of the layer, the input of wire
    \* and the outcome of the call
    eth_sender_config, wire_input, wire_output,
    \* WitnessVectorGeneratorJobSaver: whether the receiver of the channel is
    \* closed, the messages in the channel, the data of the save_result call
    \* that waits for room in the channel, and history: the messages sent and
    \* the calls that returned
    receiver_closed, buffer, pending, sent, saves

rawVars == <<block_batched_accesses, raw_result>>
genesisVars == <<dump, contracts, base_system_contracts, genesis_factory_deps,
                 genesis_states>>
parseVars == <<protocol_versioning, l1_block_number, calldata, parse_result>>
configVars == <<block_step, config_versioning>>
argVars == <<start_block, end_block>>
windowVars == <<current_block, filter_to_block, windows, filters>>
queueVars == <<priority_txs, priority_txs_so_far, next_serial_id>>
mergeVars == <<result, last_processed_priority_tx, factory_deps_hashes, consumed>>
txVars == <<logs_left, tx, blocks, ops_done, parse_calls, decoded, origins>>
fetchVars == <<configVars, argVars, pc, panic, windowVars, queueVars, mergeVars,
               txVars>>
retryVars == <<call_site, call_result, attempt, inner_attempt, requests, sleeps>>

builderVars == <<layers, setup_hook>>
wiringVars == <<wiring_layers, wired, errors, wire_order>>
taskVars == <<tasks, task_state, task_outcome, join_handles, starts, finish_order>>
shutdownVars == <<stop_signal, idx, failure, task_name, shutdown_hooks>>
serviceVars == <<builderVars, run_pc, wiringVars, taskVars, resources_wired, setup_calls,
                 setup_result, spawn_next, shutdownVars, run_result>>

wireVars == <<eth_sender_config, wire_input, wire_output>>
saverVars == <<receiver_closed, buffer, pending, sent, saves>>

vars == <<rawVars, genesisVars, parseVars, fetchVars, retryVars, serviceVars, wireVars,
          saverVars>>

(***************************************************************************)
(* processor/genesis.rs: process_raw_entries                               *)
(***************************************************************************)

\* Longest list of writes handed to process_raw_entries.
MaxWrites == 3

Addresses == {1, 2}
SlotKeys == {1, 2}
SlotValues == {1, 2}
WriteIndices == {3, 5, 7}

\* One element of Vec<(H160, U256, U256, u32)>: .0 address, .1 key, .2 value,
\* .3 write index.
Accesses == Addresses \X SlotKeys \X SlotValues \X WriteIndices

SeqsUpTo(S, n) == UNION {[1..k -> S] : k \in 0..n}

\* Ord::cmp on two unsigned numbers.
Cmp(x, y) == IF x < y THEN "Less" ELSE IF x = y THEN "Equal" ELSE "Greater"

\* A comparator that forgets the write index: writes to one pair compare
\* equal and keep their arrival order.
CompareAccessesNoIndex(a, b) ==
    IF Cmp(a[1], b[1]) # "Equal" THEN Cmp(a[1], b[1])
    ELSE IF Cmp(a[2], b[2]) # "Equal" THEN Cmp(a[2], b[2])
    ELSE "Equal"

\* A comparator for which two elements equal in address, key and write index
\* are equal.
CompareAccessesTieEqual(a, b) ==
    IF Cmp(a[1], b[1]) # "Equal" THEN Cmp(a[1], b[1])
    ELSE IF Cmp(a[2], b[2]) # "Equal" THEN Cmp(a[2], b[2])
    ELSE Cmp(a[4], b[4])

\* A comparator that orders by write index first.
CompareAccessesIndexFirst(a, b) ==
    IF Cmp(a[4], b[4]) # "Equal" THEN Cmp(a[4], b[4])
    ELSE IF Cmp(a[1], b[1]) # "Equal" THEN Cmp(a[1], b[1])
    ELSE IF Cmp(a[2], b[2]) # "Equal" THEN Cmp(a[2], b[2])
    ELSE "Panic"

\* The closure given to sort_by: address, then key, then write index; two
\* elements equal in all three make it panic.
CompareAccesses(a, b) ==
    IF Cmp(a[1], b[1]) # "Equal" THEN Cmp(a[1], b[1])
    ELSE IF Cmp(a[2], b[2]) # "Equal" THEN Cmp(a[2], b[2])
    ELSE IF Cmp(a[4], b[4]) # "Equal" THEN Cmp(a[4], b[4])
    ELSE "Panic"

\* Outcome of the sort: the list sorted so far, and whether the comparator
\* panicked.
Sorted(s) == [panicked |-> FALSE, list |-> s]
SortPanicked == [panicked |-> TRUE, list |-> <<>>]

\* Stable insertion of el into the sorted list s, comparing from the back;
\* the comparator's panic ends the sort.
RECURSIVE InsertSorted(_, _)
InsertSorted(s, el) ==
    IF s = <<>> THEN Sorted(<<el>>)
    ELSE LET last == s[Len(s)]
             c == CompareAccesses(last, el)
         IN  IF c = "Panic" THEN SortPanicked
             ELSE IF c = "Greater"
                  THEN LET r == InsertSorted(SubSeq(s, 1, Len(s) - 1), el)
                       IN  IF r.panicked THEN SortPanicked
                           ELSE Sorted(Append(r.list, last))
                  ELSE Sorted(Append(s, el))

\* A sort that leaves the list as it is.
SortAccessesNone(s) == Sorted(s)

\* block_batched_accesses.sort_by(..).
RECURSIVE SortAccesses(_)
SortAccesses(s) ==
    IF s = <<>> THEN Sorted(<<>>)
    ELSE LET r == SortAccesses(SubSeq(s, 1, Len(s) - 1))
         IN  IF r.panicked THEN SortPanicked ELSE InsertSorted(r.list, s[Len(s)])

\* crate::utils::derive_final_address_for_params: the hashed tree key of an
\* (address, key) pair; a collision-free hash.
derive_final_address_for_params(address, key) == <<"derived", address, key>>

\* The loop over `it` with `previous`: from position i of the sorted list on,
\* push previous whenever the (address, key) pair changes.
RECURSIVE BatchLoop(_, _, _, _)
BatchLoop(sorted, i, previous, batched) ==
    IF i > Len(sorted) THEN [previous |-> previous, batched |-> batched]
    ELSE LET el == sorted[i]
             pushed == IF el[1] # previous[1] \/ el[2] # previous[2]
                       THEN Append(batched, <<previous[1], previous[2], previous[3]>>)
                       ELSE batched
         IN  BatchLoop(sorted, i + 1, el, pushed)

\* `batched` after the loop and the final push of `previous`; sorted is not
\* empty.
Batched(sorted) ==
    LET l == BatchLoop(sorted, 2, sorted[1], <<>>)
    IN  Append(l.batched, <<l.previous[1], l.previous[2], l.previous[3]>>)

\* The first leaf index handed out.
FirstLeafIndex == 1

\* Tree entries whose index counts up from 0.
TreeEntriesZeroBased(batched) ==
    [i \in 1..Len(batched) |->
        [key |-> derive_final_address_for_params(batched[i][1], batched[i][2]),
         leaf_index |-> i - 1,
         value |-> batched[i][3]]]

\* TreeEntry::new(key, index, value) for every element of batched, index
\* counting up from 1.
TreeEntries(batched) ==
    [i \in 1..Len(batched) |->
        [key |-> derive_final_address_for_params(batched[i][1], batched[i][2]),
         leaf_index |-> FirstLeafIndex + (i - 1),
         value |-> batched[i][3]]]

\* process_raw_entries: sort (may panic), take the first element (panics on
\* an empty list), batch, build the tree entries.
process_raw_entries(accesses) ==
    LET sorted == SortAccesses(accesses)
    IN  IF sorted.panicked
        THEN [status |-> "panic", msg |-> "must be unique", entries |-> <<>>]
        ELSE IF sorted.list = <<>>
        THEN [status |-> "panic", msg |-> "unwrap on None", entries |-> <<>>]
        ELSE [status |-> "ok", msg |-> "",
              entries |-> TreeEntries(Batched(sorted.list))]

NotCalled == [status |-> "not_called", msg |-> "", entries |-> <<>>]

RawIdle ==
    /\ block_batched_accesses = <<>>
    /\ raw_result = NotCalled

(***************************************************************************)
(* processor/genesis.rs: reconstruct_genesis_state                         *)
(***************************************************************************)

\* Longest raw dump file, in lines.
MaxDumpLines == 3

\* One line of the dump: derived key, address, key, value, operation number
\* and miniblock number, separated by commas.  shape tells what the parsing
\* makes of the line: "ok"; "short" (a field is missing or a number does not
\* parse); "bad_encoding" (address, key or value lacks the E'\\x...' wrapping).
DumpLine(shape, address, key, value, op_number, miniblock_number) ==
    [shape |-> shape, address |-> address, key |-> key, value |-> value,
     op_number |-> op_number, miniblock_number |-> miniblock_number]
DumpLines ==
    {DumpLine("ok", 1, k, v, op, mb) :
        k \in SlotKeys, v \in SlotValues, op \in {3, 5}, mb \in {0, 1}}
    \cup {DumpLine("short", 1, 1, 1, 3, 0)}
    \cup {DumpLine("bad_encoding", 1, 1, 1, 3, mb) : mb \in {0, 1}}

ReadOk(accesses) == [panicked |-> FALSE, accesses |-> accesses]
ReadPanicked == [panicked |-> TRUE, accesses |-> <<>>]

\* The loop `for line in input.lines()` from line i on: the fields are split
\* and the numbers parsed (unwrap), the loop is left at the first line whose
\* miniblock number is not 0, the encoding of address, key and value is
\* cleaned up (unwrap), and the record is pushed.
RECURSIVE ReadDump(_, _, _)
ReadDump(lines, i, accesses) ==
    IF i > Len(lines) THEN ReadOk(accesses)
    ELSE IF lines[i].shape = "short" THEN ReadPanicked
    ELSE IF lines[i].miniblock_number # 0 THEN ReadOk(accesses)
    ELSE IF lines[i].shape = "bad_encoding" THEN ReadPanicked
    ELSE ReadDump(lines, i + 1,
                  Append(accesses, <<lines[i].address, lines[i].key, lines[i].value,
                                     lines[i].op_number>>))

\* reconstruct_genesis_state(path), on the lines of the file at path: the
\* records collected and what process_raw_entries returns for them.
reconstruct_genesis_state(lines) ==
    LET read == ReadDump(lines, 1, <<>>)
    IN  IF read.panicked
        THEN [accesses |-> <<>>,
              result |-> [status |-> "panic", msg |-> "unwrap on None", entries |-> <<>>]]
        ELSE [accesses |-> read.accesses, result |-> process_raw_entries(read.accesses)]

(***************************************************************************)
(* processor/genesis.rs: get_genesis_factory_deps, get_genesis_state       *)
(***************************************************************************)

\* Most system contracts of a registry.
MaxContracts == 3
\* Most calls of get_genesis_state.
MaxGenesisCalls == 2

GenesisBytecodes == {"b1", "b2", "b3"}
ContractAddresses == {1, 2}

\* zksync_utils::bytecode::hash_bytecode: the content hash of a bytecode.
hash_bytecode(bytecode) == <<"hash", bytecode>>
\* SystemContractCode.code holds the bytecode as 32-byte words;
\* zksync_utils::be_words_to_bytes gives the bytes back.
bytes_to_be_words(bytecode) == <<"words", bytecode>>
be_words_to_bytes(words) == words[2]

\* DeployedContract { account_id, bytecode }
DeployedContract(address, bytecode) == [address |-> address, bytecode |-> bytecode]
\* BaseSystemContracts { bootloader, default_aa }, as loaded from disk.
BaseSystemContracts(bootloader, default_aa) ==
    [bootloader |-> [code |-> bytes_to_be_words(bootloader)],
     default_aa |-> [code |-> bytes_to_be_words(default_aa)]]

\* A loop that pushes every contract's bytecode.
RECURSIVE SystemBytecodesNoDedup(_, _, _, _)
SystemBytecodesNoDedup(registry, i, hashes, bytecodes) ==
    IF i > Len(registry) THEN bytecodes
    ELSE SystemBytecodesNoDedup(registry, i + 1,
                                hashes \cup {hash_bytecode(registry[i].bytecode)},
                                Append(bytecodes, registry[i].bytecode))

\* The loop `for contract in &contracts` from contract i on.
RECURSIVE SystemBytecodes(_, _, _, _)
SystemBytecodes(registry, i, hashes, bytecodes) ==
    IF i > Len(registry) THEN bytecodes
    ELSE IF hash_bytecode(registry[i].bytecode) \in hashes
    THEN SystemBytecodes(registry, i + 1, hashes, bytecodes)
    ELSE SystemBytecodes(registry, i + 1,
                         hashes \cup {hash_bytecode(registry[i].bytecode)},
                         Append(bytecodes, registry[i].bytecode))

\* get_genesis_factory_deps, on the system contracts and the base system
\* contracts read from disk.
get_genesis_factory_deps(registry, base) ==
    SystemBytecodes(registry, 1, {}, <<>>)
        \o <<be_words_to_bytes(base.bootloader.code), be_words_to_bytes(base.default_aa.code)>>

\* The address of the contract that stores the code hashes of accounts.
ACCOUNT_CODE_STORAGE_ADDRESS == 2

\* zksync_node_genesis::get_storage_logs: for every contract, in registry
\* order, the write of its bytecode hash to the slot of its address in the
\* account code storage.
get_storage_logs(registry) ==
    [i \in 1..Len(registry) |->
        [address |-> ACCOUNT_CODE_STORAGE_ADDRESS, key |-> registry[i].address,
         value |-> hash_bytecode(registry[i].bytecode)]]

\* Raw storage logs whose index counts down.
RawStorageLogsCountingDown(storage_logs) ==
    [i \in 1..Len(storage_logs) |->
        <<storage_logs[i].address, storage_logs[i].key, storage_logs[i].value,
          Len(storage_logs) - i>>]

\* storage_logs.iter().enumerate().map(|(index, log)| (address, key, value,
\* index as u32)).collect()
RawStorageLogs(storage_logs) ==
    [i \in 1..Len(storage_logs) |->
        <<storage_logs[i].address, storage_logs[i].key, storage_logs[i].value, i - 1>>]

\* get_genesis_state, on the system contracts read from disk: the raw storage
\* logs and what process_raw_entries returns for them.
get_genesis_state(registry) ==
    LET raw_storage_logs == RawStorageLogs(get_storage_logs(registry))
    IN  [raw_storage_logs |-> raw_storage_logs,
         tree_entries |-> process_raw_entries(raw_storage_logs)]

FactoryDepsNotCalled == [called |-> FALSE, bytecodes |-> <<>>]

GenesisIdle ==
    /\ dump = <<>>
    /\ contracts = <<>>
    /\ base_system_contracts = BaseSystemContracts("b1", "b2")
    /\ genesis_factory_deps = FactoryDepsNotCalled
    /\ genesis_states = <<>>

(***************************************************************************)
(* l1_fetcher/l1_fetcher.rs: parse_calldata, parse_commit_block_info       *)
(***************************************************************************)

\* Longest per-batch data array of one commit call.
MaxElems == 2
\* Greatest L1 block number and greatest threshold of a versioning.
MaxL1Block == 2

\* ProtocolVersioning; OnlyV3 carries no thresholds.
OnlyV3 == [kind |-> "OnlyV3", v2_start_batch_number |-> 0, v3_start_batch_number |-> 0]
AllVersions(v2, v3) ==
    [kind |-> "AllVersions", v2_start_batch_number |-> v2, v3_start_batch_number |-> v3]
Versionings ==
    {OnlyV3} \cup {AllVersions(v2, v3) : v2 \in 0..MaxL1Block, v3 \in 0..MaxL1Block}

\* ethabi tokens, as far as parse_calldata inspects them.
UintToken == [t |-> "Uint"]
BytesToken == [t |-> "Bytes"]
TupleToken(fields) == [t |-> "Tuple", fields |-> fields]
ArrayToken(elems) == [t |-> "Array", elems |-> elems]

\* A decoded batch (CommitBlock), as far as the fetcher reads it.
CommitBlock(number, count, deps) ==
    [l1_batch_number |-> number, priority_operations_count |-> count,
     factory_deps |-> deps]

\* One element of the per-batch data array: the wire format it is encoded in
\* ("corrupt": none), what fetching its blobs gives, and the batch it encodes.
ElemToken(enc, blob, block) == [t |-> "Elem", enc |-> enc, blob |-> blob, block |-> block]

\* CommitBlock::try_from_token::<V>(d) and CommitBlock::try_from_token_resolve(d,
\* client): the batch with the decoder that produced it, or the ParseError.
DecodeOk(block, decoder) == [ok |-> TRUE, block |-> block, decoder |-> decoder, err |-> ""]
DecodeErr(err) == [ok |-> FALSE, block |-> CommitBlock(0, 0, <<>>), decoder |-> "", err |-> err]

try_from_token(version, d) ==
    IF d.t = "Elem" /\ d.enc = version THEN DecodeOk(d.block, version)
    ELSE DecodeErr("InvalidCommitBlockInfo")

try_from_token_resolve(d) ==
    IF d.t # "Elem" \/ d.enc # "V3" THEN DecodeErr("InvalidCommitBlockInfo")
    ELSE IF d.blob = "storage_error" THEN DecodeErr("BlobStorageError")
    ELSE IF d.blob = "format_error" THEN DecodeErr("BlobFormatError")
    ELSE DecodeOk(d.block, "V3")

\* Thresholds that start the blob format of OnlyV3 at block 1.
VersionThresholdsBlobFromOne(versioning) ==
    IF versioning.kind = "OnlyV3" THEN <<0, 1>>
    ELSE <<versioning.v2_start_batch_number, versioning.v3_start_batch_number>>

\* The pair (boojum_block, blob_block) of parse_commit_block_info.
VersionThresholds(versioning) ==
    IF versioning.kind = "OnlyV3" THEN <<0, 0>>
    ELSE <<versioning.v2_start_batch_number, versioning.v3_start_batch_number>>

\* A selection whose thresholds are exclusive lower bounds.
SelectDecoderExclusive(versioning, block_number) ==
    LET boojum_block == VersionThresholds(versioning)[1]
        blob_block == VersionThresholds(versioning)[2]
    IN  IF block_number > blob_block THEN "V3"
        ELSE IF block_number > boojum_block THEN "V2"
        ELSE "V1"

\* The decoder parse_commit_block_info picks for an element.
SelectDecoder(versioning, block_number) ==
    LET boojum_block == VersionThresholds(versioning)[1]
        blob_block == VersionThresholds(versioning)[2]
    IN  IF block_number >= blob_block THEN "V3"
        ELSE IF block_number >= boojum_block THEN "V2"
        ELSE "V1"

DecodeElem(versioning, block_number, d) ==
    LET decoder == SelectDecoder(versioning, block_number)
    IN  IF decoder = "V3" THEN try_from_token_resolve(d) ELSE try_from_token(decoder, d)

\* Outcome of parse_calldata / parse_commit_block_info: Ok(blocks), Err(err:
\* msg) or a panic; decoders lists the decoder of every element decode that
\* was attempted, in order.
ParseOk(blks, decoders) ==
    [status |-> "Ok", err |-> "", msg |-> "", blocks |-> blks, decoders |-> decoders]
ParseErr(err, msg, decoders) ==
    [status |-> "Err", err |-> err, msg |-> msg, blocks |-> <<>>, decoders |-> decoders]
ParsePanic(msg) ==
    [status |-> "Panic", err |-> "", msg |-> msg, blocks |-> <<>>, decoders |-> <<>>]

\* A loop that leaves out the elements that fail to decode.
RECURSIVE CommitBlockLoopSkipCorrupt(_, _, _, _, _, _)
CommitBlockLoopSkipCorrupt(versioning, block_number, data, i, decoded_blocks, decoders) ==
    IF i > Len(data) THEN ParseOk(decoded_blocks, decoders)
    ELSE LET r == DecodeElem(versioning, block_number, data[i])
             tried == Append(decoders, SelectDecoder(versioning, block_number))
         IN  CommitBlockLoopSkipCorrupt(versioning, block_number, data, i + 1,
                 IF r.ok THEN Append(decoded_blocks, r.block) ELSE decoded_blocks, tried)

\* The loop `for d in data` from element i on; the first failing element
\* returns its error.
RECURSIVE CommitBlockLoop(_, _, _, _, _, _)
CommitBlockLoop(versioning, block_number, data, i, decoded_blocks, decoders) ==
    IF i > Len(data) THEN ParseOk(decoded_blocks, decoders)
    ELSE LET r == DecodeElem(versioning, block_number, data[i])
             tried == Append(decoders, SelectDecoder(versioning, block_number))
         IN  IF ~r.ok THEN ParseErr(r.err, "element", tried)
             ELSE CommitBlockLoop(versioning, block_number, data, i + 1,
                                  Append(decoded_blocks, r.block), tried)

parse_commit_block_info(versioning, data, block_number) ==
    IF data.t # "Array"
    THEN ParseErr("InvalidCommitBlockInfo", "cannot convert newBlocksData to array", <<>>)
    ELSE CommitBlockLoop(versioning, block_number, data.elems, 1, <<>>, <<>>)

\* The commit functions of the V2 ABI, by name.
commit_functions == <<"commitBatches", "commitBatchesSharedBridge">>

\* Shortest calldata holding a selector.
SelectorLen == 4

\* A check that accepts any call with at least two arguments.
ArgcAtLeastTwo(argc) == argc >= 2

\* The accepted numbers of decoded arguments.
ArgcValid(argc) == argc = 2 \/ argc = 3

\* Calldata: its length, its first four bytes (the selector of a function) and
\* what Function::decode_input makes of the rest (body: the tokens, or an
\* error).
parse_calldata(versioning, block_number, commit_candidates, data) ==
    IF data.len < SelectorLen THEN ParseErr("InvalidCalldata", "too short", <<>>)
    ELSE IF \A k \in DOMAIN commit_candidates : commit_candidates[k] # data.selector
    THEN ParseErr("InvalidCalldata", "signature not found", <<>>)
    ELSE IF ~data.body.ok THEN ParseErr("InvalidCalldata", "abi error", <<>>)
    ELSE LET parsed_input == data.body.tokens
             argc == Len(parsed_input)
         IN  IF ~ArgcValid(argc)
             THEN ParseErr("InvalidCalldata", "invalid number of parameters", <<>>)
             ELSE LET new_blocks_data == parsed_input[argc]
                      stored_block_info == parsed_input[argc - 1]
                  IN  IF stored_block_info.t # "Tuple"
                      THEN ParseErr("InvalidCalldata", "invalid StoredBlockInfo", <<>>)
                      ELSE IF Len(stored_block_info.fields) < 1
                      THEN ParsePanic("index out of bounds")
                      ELSE IF stored_block_info.fields[1].t # "Uint"
                      THEN ParseErr("InvalidStoredBlockInfo",
                                    "cannot parse previous L1 batch number", <<>>)
                      ELSE IF Len(stored_block_info.fields) < 3
                      THEN ParsePanic("index out of bounds")
                      ELSE IF stored_block_info.fields[3].t # "Uint"
                      THEN ParseErr("InvalidStoredBlockInfo",
                                    "cannot parse previous enumeration index", <<>>)
                      ELSE parse_commit_block_info(versioning, new_blocks_data,
                                                   block_number)

ParseNotCalled ==
    [status |-> "not_called", err |-> "", msg |-> "", blocks |-> <<>>, decoders |-> <<>>]

\* Inputs of parse_calldata.
DefaultBlock == CommitBlock(1, 0, <<>>)
OtherBlock == CommitBlock(2, 1, <<"b1">>)
ElemTokens ==
    {ElemToken(enc, "ok", DefaultBlock) : enc \in {"V1", "V2", "V3", "corrupt"}}
        \cup {ElemToken("V3", blob, DefaultBlock) : blob \in {"storage_error", "format_error"}}
        \cup {ElemToken(enc, "ok", OtherBlock) : enc \in {"V2", "V3"}}
GoodStoredBlockInfo == TupleToken(<<UintToken, BytesToken, UintToken>>)
StoredTokens ==
    {UintToken} \cup {TupleToken(f) : f \in SeqsUpTo({UintToken, BytesToken}, 3)}
NewBlocksTokens == {BytesToken} \cup {ArrayToken(e) : e \in SeqsUpTo(ElemTokens, MaxElems)}
FewNewBlocksTokens ==
    {BytesToken, ArrayToken(<<>>)}
        \cup {ArrayToken(<<e>>) : e \in {ElemToken(enc, "ok", DefaultBlock) :
                                            enc \in {"V3", "corrupt"}}}
LeadingTokens == {<<>>, <<UintToken>>, <<UintToken, UintToken>>}
TokenLists ==
    {<<>>}
        \cup {<<new>> : new \in FewNewBlocksTokens}
        \cup {pre \o <<stored, new>> :
                pre \in LeadingTokens, stored \in StoredTokens, new \in FewNewBlocksTokens}
        \cup {pre \o <<GoodStoredBlockInfo, new>> :
                pre \in LeadingTokens, new \in NewBlocksTokens}
Bodies(tokenLists) ==
    {[ok |-> TRUE, tokens |-> t] : t \in tokenLists} \cup {[ok |-> FALSE, tokens |-> <<>>]}
Selectors == {"commitBatches", "commitBatchesSharedBridge", "proveBatches"}
Calldata(len, selector, body) == [len |-> len, selector |-> selector, body |-> body]
FewTokenLists == {<<>>, <<GoodStoredBlockInfo, ArrayToken(<<ElemToken("V3", "ok", DefaultBlock)>>)>>}
Calldatas ==
    {Calldata(len, sel, body) :
        len \in {0, SelectorLen - 1}, sel \in Selectors, body \in Bodies(FewTokenLists)}
    \cup {Calldata(SelectorLen, "proveBatches", body) : body \in Bodies(FewTokenLists)}
    \cup {Calldata(SelectorLen, sel, body) :
            sel \in {"commitBatches", "commitBatchesSharedBridge"}, body \in Bodies(TokenLists)}

ParseIdle ==
    /\ protocol_versioning = OnlyV3
    /\ l1_block_number = 0
    /\ calldata = Calldata(0, "proveBatches", [ok |-> FALSE, tokens |-> <<>>])
    /\ parse_result = ParseNotCalled

(***************************************************************************)
(* l1_fetcher/l1_fetcher.rs: L1Fetcher                                     *)
(***************************************************************************)

\* `MAX_RETRIES` is the maximum number of retries on failed L1 call.
MAX_RETRIES == 5

\* Greatest L1 block number of a run.
MaxBlock == 2
\* Greatest block_step of a configuration.
MaxStep == 2
\* Most priority transactions logged on L1 during a run.
MaxPriorityTxs == 2
\* Most batches committed on L1 during a run; a window returns no more commit
\* logs than batches are left to commit.
MaxBatches == 2

Min(a, b) == IF a <= b THEN a ELSE b

Bytecodes == {"b1", "b2"}

\* An L1Tx built from a NewPriorityRequest log.
L1Tx(serial_id, deps) == [serial_id |-> serial_id, factory_deps |-> deps]

\* A merge that puts the deps in front of the block's own.
RECURSIVE MergeFactoryDepsInFront(_, _, _, _)
MergeFactoryDepsInFront(deps, i, hashes, block_deps) ==
    IF i > Len(deps) THEN [hashes |-> hashes, factory_deps |-> block_deps]
    ELSE LET hashed == hash_bytecode(deps[i])
         IN  IF hashed \in hashes
             THEN MergeFactoryDepsInFront(deps, i + 1, hashes, block_deps)
             ELSE MergeFactoryDepsInFront(deps, i + 1, hashes \cup {hashed},
                                         <<deps[i]>> \o block_deps)

\* A merge that skips the hash set.
RECURSIVE MergeFactoryDepsNoDedup(_, _, _, _)
MergeFactoryDepsNoDedup(deps, i, hashes, block_deps) ==
    IF i > Len(deps) THEN [hashes |-> hashes, factory_deps |-> block_deps]
    ELSE MergeFactoryDepsNoDedup(deps, i + 1, hashes \cup {hash_bytecode(deps[i])},
                                 Append(block_deps, deps[i]))

\* The loop over priority_tx.execute.factory_deps from position i on: a dep
\* whose hash is in factory_deps_hashes is skipped, any other is recorded and
\* pushed to the block's factory_deps.
RECURSIVE MergeFactoryDeps(_, _, _, _)
MergeFactoryDeps(deps, i, hashes, block_deps) ==
    IF i > Len(deps) THEN [hashes |-> hashes, factory_deps |-> block_deps]
    ELSE LET hashed == hash_bytecode(deps[i])
         IN  IF hashed \in hashes
             THEN MergeFactoryDeps(deps, i + 1, hashes, block_deps)
             ELSE MergeFactoryDeps(deps, i + 1, hashes \cup {hashed},
                                   Append(block_deps, deps[i]))

\* A cursor that skips a transaction.
NextCursorByTwo(cursor) == cursor + 2

\* A cursor that stays where it is.
NextCursorStuck(cursor) == cursor

\* last_processed_priority_tx += 1
NextCursor(cursor) == cursor + 1

\* A push that drops a batch whose number is already in the result.
PushedResultDedup(res, block) ==
    IF \E p \in DOMAIN res : res[p].l1_batch_number = block.l1_batch_number
    THEN res ELSE Append(res, block)

\* A push at the front of the output.
PushedResultInFront(res, block) == <<block>> \o res

\* result.push(block)
PushedResult(res, block) == Append(res, block)

\* The filter of a log query: the event's signature as topic and the block
\* bounds (the contract address is the same in every filter).
LogFilter(event, from_block, to_block) ==
    [event |-> event, from_block |-> from_block, to_block |-> to_block]

\* Where the n batches of a commit transaction came from: the window, the
\* commit logs of the window left when the transaction was fetched (its own
\* included: an earlier log of the list has more logs left), and the position
\* in the calldata array.
Origins(window, left, n) ==
    [i \in 1..n |-> [window |-> window, logs_left |-> left, pos |-> i]]

\* A window end one block further.
FilterToBlockOneMore(current, step, end) == Min(current + step, end)

\* A window end that is not cut at end_block.
FilterToBlockNoMin(current, step, end) == current + step - 1

\* cmp::min(current_block + block_step - 1, end_block)
FilterToBlock(current, step, end) == Min(current + step - 1, end)

\* A fetched web3 Transaction: the block that holds it and its input.
Transaction(block_number, input) == [block_number |-> block_number, input |-> input]
NoTransaction == Transaction(0, Calldata(0, "proveBatches", [ok |-> FALSE, tokens |-> <<>>]))

\* What the base chain can hold.  A priority request carries a list of
\* factory deps; a committed batch its number, its count of priority
\* operations and its own factory deps.
PriorityDepLists == {<<>>, <<"b1">>, <<"b2", "b1", "b2">>}
BatchDepLists == {<<>>, <<"b1">>}
BatchNumbers == {1, 2}
CommittedBlocks ==
    {CommitBlock(n, c, d) : n \in BatchNumbers, c \in 0..MaxPriorityTxs, d \in BatchDepLists}
\* The calldata of a commit transaction that commits blks in wire format enc.
CommitCalldata(enc, blks) ==
    Calldata(SelectorLen, "commitBatches",
             [ok |-> TRUE,
              tokens |-> <<GoodStoredBlockInfo,
                           ArrayToken([i \in 1..Len(blks) |-> ElemToken(enc, "ok", blks[i])])>>])
\* Commit transactions that do not decode: calldata too short, the selector of
\* another function, a corrupt element after a good one, a blob that cannot
\* be fetched.
MalformedCalldatas(enc) ==
    {Calldata(SelectorLen - 1, "commitBatches", [ok |-> FALSE, tokens |-> <<>>]),
     Calldata(SelectorLen, "proveBatches", [ok |-> TRUE, tokens |-> <<>>]),
     Calldata(SelectorLen, "commitBatches",
              [ok |-> TRUE,
               tokens |-> <<GoodStoredBlockInfo,
                            ArrayToken(<<ElemToken(enc, "ok", DefaultBlock),
                                         ElemToken("corrupt", "ok", DefaultBlock)>>)>>]),
     Calldata(SelectorLen, "commitBatches",
              [ok |-> TRUE,
               tokens |-> <<GoodStoredBlockInfo,
                            ArrayToken(<<ElemToken("V3", "storage_error", DefaultBlock)>>)>>])}

FetchIdle ==
    /\ block_step = 1
    /\ config_versioning = OnlyV3
    /\ start_block = 0
    /\ end_block = 0
    /\ pc = "idle"
    /\ panic = ""
    /\ current_block = 0
    /\ filter_to_block = 0
    /\ windows = 0
    /\ filters = <<>>
    /\ result = <<>>
    /\ priority_txs = <<>>
    /\ priority_txs_so_far = 0
    /\ last_processed_priority_tx = 0
    /\ factory_deps_hashes = {}
    /\ logs_left = 0
    /\ tx = NoTransaction
    /\ blocks = <<>>
    /\ ops_done = 0
    /\ parse_calls = 0
    /\ next_serial_id = 0
    /\ decoded = <<>>
    /\ origins = <<>>
    /\ consumed = <<>>

RetryIdle ==
    /\ call_site = "none"
    /\ call_result = "none"
    /\ attempt = 1
    /\ inner_attempt = 1
    /\ requests = 0
    /\ sleeps = 0

(***************************************************************************)
(* node_framework/src/service/mod.rs: ZkStackService                       *)
(***************************************************************************)

\* Most layers added to a service.
MaxLayers == 3

\* A task as a layer adds it: whether it provides an after_node_shutdown hook.
TaskKinds == {[after_node_shutdown |-> h] : h \in {"Some", "None"}}
\* A wiring layer: what wire returns and the tasks it adds to the service
\* before it returns.
LayerKinds == {[result |-> r, adds |-> a] : r \in {"Ok", "Err"}, a \in SeqsUpTo(TaskKinds, 1)}

\* Box<dyn StoredTask> added by ServiceContext::add_task; the name tells the
\* tasks apart.
StoredTask(name, kind) == [name |-> name, after_node_shutdown |-> kind.after_node_shutdown]
\* TaskRepr { name, task: Some(task_future), after_node_shutdown }
TaskRepr(task) ==
    [name |-> task.name, task |-> "Some", after_node_shutdown |-> task.after_node_shutdown]

\* What a task future resolves to: Ok(Ok(())), Ok(Err(err)), or Err(_) when
\* the task panicked.
TaskOutcomes == {"Ok", "Err", "Panic"}

NotReturned == [status |-> "none", msg |-> "", task_name |-> 0]
RunOk == [status |-> "Ok", msg |-> "", task_name |-> 0]
RunErr(msg, name) == [status |-> "Err", msg |-> msg, task_name |-> name]

\* A selection of the last handle whose task has finished.
SelectAllLast(handles, state) ==
    IF \E k \in DOMAIN handles : state[handles[k]] = "finished"
    THEN CHOOSE k \in DOMAIN handles :
            /\ state[handles[k]] = "finished"
            /\ \A j \in DOMAIN handles : state[handles[j]] = "finished" => j <= k
    ELSE 0

\* futures::future::select_all over the join handles, polled when a task has
\* finished: the position of the first handle, in the order of the list,
\* whose task has finished (0 when there is none).
select_all(handles, state) ==
    IF \E k \in DOMAIN handles : state[handles[k]] = "finished"
    THEN CHOOSE k \in DOMAIN handles :
            /\ state[handles[k]] = "finished"
            /\ \A j \in DOMAIN handles : state[handles[j]] = "finished" => k <= j
    ELSE 0

\* ZkStackService::new()
ServiceIdle ==
    /\ layers = <<>>
    /\ setup_hook = "None"
    /\ run_pc = "building"
    /\ wiring_layers = <<>>
    /\ wired = 0
    /\ errors = <<>>
    /\ tasks = <<>>
    /\ resources_wired = FALSE
    /\ stop_signal = FALSE
    /\ join_handles = <<>>
    /\ spawn_next = 1
    /\ idx = 0
    /\ failure = FALSE
    /\ task_name = 0
    /\ shutdown_hooks = <<>>
    /\ run_result = NotReturned
    /\ task_state = <<>>
    /\ task_outcome = <<>>
    /\ wire_order = <<>>
    /\ setup_calls = 0
    /\ setup_result = "none"
    /\ starts = <<>>
    /\ finish_order = <<>>

(***************************************************************************)
(* node_framework/src/implementations/layers/eth_sender/manager.rs:        *)
(* EthTxManagerLayer                                                       *)
(***************************************************************************)

\* Option<T>
None == <<>>
Some(x) == <<x>>

\* SettlementMode and SettlementMode::is_gateway.
SettlementModes == {"SettlesToL1", "Gateway"}
is_gateway(settlement_mode) == settlement_mode = "Gateway"

\* EthConfig, as far as wire reads it: the optional sender configuration and
\* the optional gas adjuster configuration with its settlement mode.
EthConfigs ==
    [sender : {None, Some("sender_config")},
     gas_adjuster : {None} \cup {Some([settlement_mode |-> m]) : m \in SettlementModes}]

\* Input of wire: what master_pool.get() returns, the bound Ethereum client,
\* the optional client for blobs and the gas adjuster.
EthClients == {"client1", "client2"}
BlobsClients == {"blobs1", "blobs2"}
WireInputs ==
    [master_pool : {"Ok", "Err"},
     eth_client : EthClients,
     eth_client_blobs : {None} \cup {Some(c) : c \in BlobsClients},
     gas_adjuster : {"gas_adjuster"}]

\* EthTxManager::new(pool, config, gas_adjuster, ethereum_gateway,
\* ethereum_gateway_blobs, l2_gateway)
EthTxManager(pool, config, gas_adjuster, l1_client, blobs_client, l2_client) ==
    [pool |-> pool, config |-> config, gas_adjuster |-> gas_adjuster,
     ethereum_gateway |-> l1_client,
     ethereum_gateway_blobs |-> blobs_client,
     l2_gateway |-> l2_client]
NoManager == EthTxManager("none", "none", "none", None, None, None)

WireNotCalled == [status |-> "not_called", msg |-> "", eth_tx_manager |-> NoManager]
WirePanic(msg) == [status |-> "panic", msg |-> msg, eth_tx_manager |-> NoManager]
WireErr(msg) == [status |-> "Err", msg |-> msg, eth_tx_manager |-> NoManager]
WireOk(manager) == [status |-> "Ok", msg |-> "", eth_tx_manager |-> manager]

\* A wire that hands over the L1 client in every settlement mode.
wire_with_l1_client(config, input) ==
    IF input.master_pool = "Err" THEN WirePanic("unwrap on Err")
    ELSE IF config.gas_adjuster = None THEN WirePanic("unwrap on None")
    ELSE LET settlement_mode == config.gas_adjuster[1].settlement_mode
         IN  IF config.sender = None THEN WireErr("sender")
             ELSE WireOk(EthTxManager(
                     "master_pool", config.sender[1], input.gas_adjuster,
                     Some(input.eth_client),
                     IF ~is_gateway(settlement_mode) THEN input.eth_client_blobs ELSE None,
                     IF is_gateway(settlement_mode) THEN Some(input.eth_client) ELSE None))

\* EthTxManagerLayer::wire(self, input): the pool and the gas adjuster
\* configuration are unwrapped (a panic), a missing sender configuration is
\* an error, and the manager gets the clients that go with the settlement
\* mode; eth_client and l2_client are both input.eth_client.0.
wire(config, input) ==
    IF input.master_pool = "Err" THEN WirePanic("unwrap on Err")
    ELSE IF config.gas_adjuster = None THEN WirePanic("unwrap on None")
    ELSE LET settlement_mode == config.gas_adjuster[1].settlement_mode
             eth_client == input.eth_client
             eth_client_blobs == input.eth_client_blobs
             l2_client == input.eth_client
         IN  IF config.sender = None THEN WireErr("sender")
             ELSE WireOk(EthTxManager(
                     "master_pool", config.sender[1], input.gas_adjuster,
                     IF ~is_gateway(settlement_mode) THEN Some(eth_client) ELSE None,
                     IF ~is_gateway(settlement_mode) THEN eth_client_blobs ELSE None,
                     IF is_gateway(settlement_mode) THEN Some(l2_client) ELSE None))

WireIdle ==
    /\ eth_sender_config = [sender |-> None, gas_adjuster |-> None]
    /\ wire_input = [master_pool |-> "Ok", eth_client |-> "client1",
                     eth_client_blobs |-> None, gas_adjuster |-> "gas_adjuster"]
    /\ wire_output = WireNotCalled

(***************************************************************************)
(* circuit_prover_service/src/witness_vector_generator/                    *)
(* witness_vector_generator_job_saver.rs: WitnessVectorGeneratorJobSaver   *)
(***************************************************************************)

\* Most calls of save_result in a run, and the room in the channel.
MaxSaves == 3
ChannelCapacity == 1

\* anyhow::Result<WitnessVectorGeneratorExecutionOutput>
JobOk(payload) == [ok |-> TRUE, payload |-> payload]
JobErr == [ok |-> FALSE, payload |-> "none"]
Payloads == {"w1", "w2"}
JobMetadata == {1, 2}
\* The argument of save_result: (result, metadata).
SaveData ==
    [result : {JobOk(w) : w \in Payloads} \cup {JobErr}, metadata : JobMetadata]
NoData == [result |-> JobErr, metadata |-> 0]

\* A call of save_result that returned, and what it returned.
Saved(data, returned) == [data |-> data, returned |-> returned]

SaverIdle ==
    /\ receiver_closed = FALSE
    /\ buffer = <<>>
    /\ pending = NoData
    /\ sent = <<>>
    /\ saves = <<>>

(***************************************************************************)
(* Specification of process_raw_entries                                    *)
(***************************************************************************)

InitRaw ==
    /\ block_batched_accesses \in SeqsUpTo(Accesses, MaxWrites)
    /\ raw_result = NotCalled
    /\ GenesisIdle
    /\ ParseIdle
    /\ FetchIdle
    /\ RetryIdle
    /\ ServiceIdle
    /\ WireIdle
    /\ SaverIdle

\* The call process_raw_entries(block_batched_accesses).
ProcessRawEntries ==
    /\ raw_result.status = "not_called"
    /\ raw_result' = process_raw_entries(block_batched_accesses)
    /\ UNCHANGED block_batched_accesses
    /\ UNCHANGED <<genesisVars, parseVars, fetchVars, retryVars, serviceVars, wireVars, saverVars>>

NextRaw == ProcessRawEntries

SpecRaw == InitRaw /\ [][NextRaw]_vars

(***************************************************************************)
(* Specification of reconstruct_genesis_state                              *)
(***************************************************************************)

InitDump ==
    /\ dump \in SeqsUpTo(DumpLines, MaxDumpLines)
    /\ contracts = <<>>
    /\ base_system_contracts = BaseSystemContracts("b1", "b2")
    /\ genesis_factory_deps = FactoryDepsNotCalled
    /\ genesis_states = <<>>
    /\ RawIdle
    /\ ParseIdle
    /\ FetchIdle
    /\ RetryIdle
    /\ ServiceIdle
    /\ WireIdle
    /\ SaverIdle

\* The call reconstruct_genesis_state(path).
ReconstructGenesisState ==
    /\ raw_result.status = "not_called"
    /\ LET call == reconstruct_genesis_state(dump)
       IN  /\ block_batched_accesses' = call.accesses
           /\ raw_result' = call.result
    /\ UNCHANGED <<genesisVars, parseVars, fetchVars, retryVars, serviceVars, wireVars, saverVars>>

NextDump == ReconstructGenesisState

SpecDump == InitDump /\ [][NextDump]_vars

(***************************************************************************)
(* Specification of get_genesis_factory_deps and get_genesis_state         *)
(***************************************************************************)

\* The registry is a static list: it is not empty.
Registries ==
    SeqsUpTo({DeployedContract(a, b) : a \in ContractAddresses, b \in GenesisBytecodes},
             MaxContracts) \ {<<>>}

InitGenesis ==
    /\ dump = <<>>
    /\ contracts \in Registries
    /\ base_system_contracts \in
          {BaseSystemContracts(b, d) : b \in GenesisBytecodes, d \in GenesisBytecodes}
    /\ genesis_factory_deps = FactoryDepsNotCalled
    /\ genesis_states = <<>>
    /\ RawIdle
    /\ ParseIdle
    /\ FetchIdle
    /\ RetryIdle
    /\ ServiceIdle
    /\ WireIdle
    /\ SaverIdle

\* The call get_genesis_factory_deps().
GetGenesisFactoryDeps ==
    /\ ~genesis_factory_deps.called
    /\ genesis_factory_deps' =
          [called |-> TRUE,
           bytecodes |-> get_genesis_factory_deps(contracts, base_system_contracts)]
    /\ UNCHANGED <<dump, contracts, base_system_contracts, genesis_states>>
    /\ UNCHANGED <<rawVars, parseVars, fetchVars, retryVars, serviceVars, wireVars, saverVars>>

\* A call get_genesis_state().
GetGenesisState ==
    /\ Len(genesis_states) < MaxGenesisCalls
    /\ genesis_states' = Append(genesis_states, get_genesis_state(contracts))
    /\ UNCHANGED <<dump, contracts, base_system_contracts, genesis_factory_deps>>
    /\ UNCHANGED <<rawVars, parseVars, fetchVars, retryVars, serviceVars, wireVars, saverVars>>

NextGenesis == GetGenesisFactoryDeps \/ GetGenesisState

SpecGenesis == InitGenesis /\ [][NextGenesis]_vars

(***************************************************************************)
(* Specification of parse_calldata                                         *)
(***************************************************************************)

InitParse ==
    /\ protocol_versioning \in Versionings
    /\ l1_block_number \in 0..MaxL1Block
    /\ calldata \in Calldatas
    /\ parse_result = ParseNotCalled
    /\ RawIdle
    /\ GenesisIdle
    /\ FetchIdle
    /\ RetryIdle
    /\ ServiceIdle
    /\ WireIdle
    /\ SaverIdle

\* The call parse_calldata(protocol_versioning, l1_block_number,
\* commit_functions, calldata, client).
ParseCalldata ==
    /\ parse_result.status = "not_called"
    /\ parse_result' = parse_calldata(protocol_versioning, l1_block_number,
                                      commit_functions, calldata)
    /\ UNCHANGED <<protocol_versioning, l1_block_number, calldata>>
    /\ UNCHANGED <<rawVars, genesisVars, fetchVars, retryVars, serviceVars, wireVars, saverVars>>

NextParse == ParseCalldata

SpecParse == InitParse /\ [][NextParse]_vars

(***************************************************************************)
(* Specification of L1Fetcher: get_all_blocks_to_process and               *)
(* get_blocks_to_process                                                   *)
(***************************************************************************)

\* L1Fetcher::new(config, eth_client), with a versioned configuration under
\* which the blocks of a run meet all three wire formats.
InitFetch ==
    /\ block_step \in 1..MaxStep
    /\ config_versioning = AllVersions(1, 2)
    /\ start_block = 0
    /\ end_block = 0
    /\ pc = "idle"
    /\ panic = ""
    /\ current_block = 0
    /\ filter_to_block = 0
    /\ windows = 0
    /\ filters = <<>>
    /\ result = <<>>
    /\ priority_txs = <<>>
    /\ priority_txs_so_far = 0
    /\ last_processed_priority_tx = 0
    /\ factory_deps_hashes = {}
    /\ logs_left = 0
    /\ tx = NoTransaction
    /\ blocks = <<>>
    /\ ops_done = 0
    /\ parse_calls = 0
    /\ next_serial_id = 0
    /\ decoded = <<>>
    /\ origins = <<>>
    /\ consumed = <<>>
    /\ RawIdle
    /\ GenesisIdle
    /\ ParseIdle
    /\ RetryIdle
    /\ ServiceIdle
    /\ WireIdle
    /\ SaverIdle

Panic(msg) ==
    /\ pc' = "panicked"
    /\ panic' = msg

\* Entry of get_blocks_to_process(start, end): the assertion, the locals, and
\* the first window's filter_to_block.
EnterGetBlocksToProcess(start, end) ==
    /\ start_block' = start
    /\ end_block' = end
    /\ IF start <= end
       THEN /\ current_block' = start
            /\ filter_to_block' = FilterToBlock(start, block_step, end)
            /\ windows' = 1
            /\ UNCHANGED filters
            /\ pc' = "fetch_priority_txs"
            /\ panic' = panic
       ELSE /\ Panic("assertion failed: start_block <= end_block")
            /\ UNCHANGED windowVars
    /\ UNCHANGED <<configVars, queueVars, mergeVars, txVars>>
    /\ UNCHANGED <<rawVars, genesisVars, parseVars, retryVars, serviceVars, wireVars, saverVars>>

\* get_blocks_to_process called with arguments of the caller's choice.
GetBlocksToProcess ==
    /\ pc = "idle"
    /\ \E start \in 0..MaxBlock, end \in 0..MaxBlock : EnterGetBlocksToProcess(start, end)

\* get_all_blocks_to_process: the start block is 0 and the end block the last
\* finalized block; get_last_l1_block_number's retry_call ends with an error,
\* with no block, with a block without number, or with the finalized block.
GetAllBlocksToProcess ==
    /\ pc = "idle"
    /\ \/ /\ \E msg \in {"get end block number failed", "last block must be present",
                         "found latest block, but it contained no block number"} :
                 Panic(msg)
          /\ UNCHANGED <<configVars, argVars, windowVars, queueVars, mergeVars, txVars>>
          /\ UNCHANGED <<rawVars, genesisVars, parseVars, retryVars, serviceVars, wireVars, saverVars>>
       \/ \E last \in 0..MaxBlock : EnterGetBlocksToProcess(0, last)

\* fetch_priority_txs for the window current_block..filter_to_block: its
\* assertion; its retry_call ends with an error (unwrapped: a panic) or with
\* the window's NewPriorityRequest logs, which are appended to priority_txs;
\* then the count is logged and priority_txs_so_far updated.  The
\* subtraction in the log line underflows when the queue is shorter than
\* priority_txs_so_far: a panic where overflow checks are compiled in, a
\* wrapped number in the log line where they are not.
FetchPriorityTxs ==
    /\ pc = "fetch_priority_txs"
    /\ IF filter_to_block - current_block > block_step
       THEN /\ Panic("assertion failed: end_block - start_block <= block_step")
            /\ UNCHANGED <<queueVars, filters>>
       ELSE /\ filters' = Append(filters, LogFilter("NewPriorityRequest", current_block,
                                                    filter_to_block))
            /\ \/ /\ Panic("get logs failed")
                  /\ UNCHANGED queueVars
               \/ \E k \in 0..(MaxPriorityTxs - Len(priority_txs)) :
                  \E deps \in [1..k -> PriorityDepLists] :
                  LET found == [i \in 1..k |-> L1Tx(next_serial_id + i - 1, deps[i])]
                      queue == priority_txs \o found
                  IN  /\ priority_txs' = queue
                      /\ next_serial_id' = next_serial_id + k
                      /\ priority_txs_so_far' = priority_txs_so_far + Len(queue)
                      /\ \/ /\ pc' = "fetch_logs"
                            /\ panic' = panic
                         \/ /\ Len(queue) < priority_txs_so_far
                            /\ Panic("attempt to subtract with overflow")
    /\ UNCHANGED <<current_block, filter_to_block, windows>>
    /\ UNCHANGED <<configVars, argVars, mergeVars, txVars>>
    /\ UNCHANGED <<rawVars, genesisVars, parseVars, retryVars, serviceVars, wireVars, saverVars>>

\* The log loop goes on with the next log, or the window is finished.
NextLog(left) ==
    /\ logs_left' = left
    /\ pc' = IF left > 0 THEN "get_tx" ELSE "window_end"
    /\ panic' = panic

\* The retry_call for the window's BlockCommit logs ends with an error
\* (unwrapped: a panic) or with the logs.
FetchLogs ==
    /\ pc = "fetch_logs"
    /\ filters' = Append(filters, LogFilter("BlockCommit", current_block, filter_to_block))
    /\ \/ /\ Panic("get logs failed")
          /\ UNCHANGED logs_left
       \/ \E n \in 0..(MaxBatches - Len(decoded)) : NextLog(n)
    /\ UNCHANGED <<tx, blocks, ops_done, parse_calls, decoded, origins>>
    /\ UNCHANGED <<current_block, filter_to_block, windows>>
    /\ UNCHANGED <<configVars, argVars, queueVars, mergeVars>>
    /\ UNCHANGED <<rawVars, genesisVars, parseVars, retryVars, serviceVars, wireVars, saverVars>>

\* The batches a commit transaction can carry when `before` batches were
\* committed before it: numbered in sequence, or a batch sent again.
CommittedBlockLists(before, room) ==
    {b \in SeqsUpTo(CommittedBlocks, room) :
        \A i \in DOMAIN b : b[i].l1_batch_number \in {1, before + i}}

\* The retry_call around get_transaction_by_hash for the current log ends
\* with an error (unwrapped: a panic) or with the log's transaction, which is
\* in a block of the window.
GetTransactionByHash ==
    /\ pc = "get_tx"
    /\ \/ /\ Panic("get tx failed")
          /\ UNCHANGED tx
       \/ /\ \E block_number \in current_block..filter_to_block :
             LET enc == SelectDecoder(config_versioning, block_number)
                 room == Min(MaxElems, MaxBatches - Len(decoded))
             IN  \E input \in {CommitCalldata(enc, b) :
                                  b \in CommittedBlockLists(Len(decoded), room)}
                               \cup MalformedCalldatas(enc) :
                    tx' = Transaction(block_number, input)
          /\ pc' = "process_tx"
          /\ panic' = panic
    /\ UNCHANGED <<logs_left, blocks, ops_done, parse_calls, decoded, origins>>
    /\ UNCHANGED <<configVars, argVars, windowVars, queueVars, mergeVars>>
    /\ UNCHANGED <<rawVars, genesisVars, parseVars, retryVars, serviceVars, wireVars, saverVars>>

\* The block loop goes on with the next block of the transaction, or the log
\* loop with the next log.
NextBlock(rest) ==
    /\ blocks' = rest
    /\ ops_done' = 0
    /\ IF rest # <<>>
       THEN /\ pc' = "merge"
            /\ UNCHANGED <<logs_left, panic>>
       ELSE NextLog(logs_left - 1)

\* A process_tx_data that decodes the calldata a second time after an error.
process_tx_data_retrying(commit_candidates, transaction, versioning) ==
    LET first == parse_calldata(versioning, transaction.block_number, commit_candidates,
                                transaction.input)
    IN  IF first.status = "Ok" THEN [outcome |-> first, parse_calls |-> 1]
        ELSE [outcome |-> parse_calldata(versioning, transaction.block_number,
                                         commit_candidates, transaction.input),
              parse_calls |-> 2]

\* process_tx_data(commit_functions, blob_client, tx, protocol_versioning): the
\* loop is left in its first iteration, with Ok(blks) or with the error of
\* parse_calldata (or its panic); parse_calls counts the calls of
\* parse_calldata.
process_tx_data(commit_candidates, transaction, versioning) ==
    [outcome |-> parse_calldata(versioning, transaction.block_number, commit_candidates,
                                transaction.input),
     parse_calls |-> 1]

\* A step that goes on with the next log when the transaction fails to decode.
ProcessTxDataSkipFailed ==
    /\ pc = "process_tx"
    /\ LET call == process_tx_data(commit_functions, tx, config_versioning)
           parsed == call.outcome
       IN  /\ parse_calls' = call.parse_calls
           /\ IF parsed.status = "Ok"
              THEN /\ decoded' = decoded \o parsed.blocks
                   /\ origins' = origins \o Origins(windows, logs_left, Len(parsed.blocks))
                   /\ NextBlock(parsed.blocks)
              ELSE /\ NextBlock(<<>>)
                   /\ UNCHANGED <<decoded, origins>>
    /\ tx' = NoTransaction
    /\ UNCHANGED <<configVars, argVars, windowVars, queueVars, mergeVars>>
    /\ UNCHANGED <<rawVars, genesisVars, parseVars, retryVars, serviceVars, wireVars, saverVars>>

\* process_tx_data(functions, client, tx, versioning).unwrap(): the error of
\* process_tx_data makes the unwrap panic.  The transaction is moved into the
\* call.
ProcessTxData ==
    /\ pc = "process_tx"
    /\ LET call == process_tx_data(commit_functions, tx, config_versioning)
           parsed == call.outcome
       IN  /\ parse_calls' = call.parse_calls
           /\ IF parsed.status = "Ok"
              THEN /\ decoded' = decoded \o parsed.blocks
                   /\ origins' = origins \o Origins(windows, logs_left, Len(parsed.blocks))
                   /\ NextBlock(parsed.blocks)
              ELSE /\ Panic(IF parsed.status = "Err" THEN parsed.err ELSE parsed.msg)
                   /\ UNCHANGED <<logs_left, blocks, ops_done, decoded, origins>>
    /\ tx' = NoTransaction
    /\ UNCHANGED <<configVars, argVars, windowVars, queueVars, mergeVars>>
    /\ UNCHANGED <<rawVars, genesisVars, parseVars, retryVars, serviceVars, wireVars, saverVars>>

\* An iteration that goes on without a priority transaction when the queue is
\* used up.
ConsumePriorityTxSkipMissing ==
    /\ pc = "merge"
    /\ ops_done < blocks[1].priority_operations_count
    /\ IF last_processed_priority_tx >= Len(priority_txs)
       THEN /\ ops_done' = ops_done + 1
            /\ UNCHANGED <<pc, panic, blocks, mergeVars>>
       ELSE LET priority_tx == priority_txs[last_processed_priority_tx + 1]
                merged == MergeFactoryDeps(priority_tx.factory_deps, 1,
                                           factory_deps_hashes, blocks[1].factory_deps)
            IN  /\ factory_deps_hashes' = merged.hashes
                /\ blocks' = [blocks EXCEPT ![1].factory_deps = merged.factory_deps]
                /\ consumed' = Append(consumed,
                                      [index |-> last_processed_priority_tx,
                                       serial_id |-> priority_tx.serial_id,
                                       batch |-> Len(result) + 1])
                /\ last_processed_priority_tx' = NextCursor(last_processed_priority_tx)
                /\ ops_done' = ops_done + 1
                /\ UNCHANGED <<pc, panic, result>>
    /\ UNCHANGED <<logs_left, tx, parse_calls, decoded, origins>>
    /\ UNCHANGED <<configVars, argVars, windowVars, queueVars>>
    /\ UNCHANGED <<rawVars, genesisVars, parseVars, retryVars, serviceVars, wireVars, saverVars>>

\* One iteration of `for _ in 0..block.priority_operations_count`: the
\* priority transaction at the cursor is read (a panic beyond the end of the
\* queue), its factory deps are merged into the block, the cursor moves on.
ConsumePriorityTx ==
    /\ pc = "merge"
    /\ ops_done < blocks[1].priority_operations_count
    /\ IF last_processed_priority_tx >= Len(priority_txs)
       THEN /\ Panic("index out of bounds")
            /\ UNCHANGED <<blocks, ops_done, mergeVars>>
       ELSE LET priority_tx == priority_txs[last_processed_priority_tx + 1]
                merged == MergeFactoryDeps(priority_tx.factory_deps, 1,
                                           factory_deps_hashes, blocks[1].factory_deps)
            IN  /\ factory_deps_hashes' = merged.hashes
                /\ blocks' = [blocks EXCEPT ![1].factory_deps = merged.factory_deps]
                /\ consumed' = Append(consumed,
                                      [index |-> last_processed_priority_tx,
                                       serial_id |-> priority_tx.serial_id,
                                       batch |-> Len(result) + 1])
                /\ last_processed_priority_tx' = NextCursor(last_processed_priority_tx)
                /\ ops_done' = ops_done + 1
                /\ UNCHANGED <<pc, panic, result>>
    /\ UNCHANGED <<logs_left, tx, parse_calls, decoded, origins>>
    /\ UNCHANGED <<configVars, argVars, windowVars, queueVars>>
    /\ UNCHANGED <<rawVars, genesisVars, parseVars, retryVars, serviceVars, wireVars, saverVars>>

\* result.push(block), after the loop over the block's priority operations.
PushBlock ==
    /\ pc = "merge"
    /\ ops_done = blocks[1].priority_operations_count
    /\ result' = PushedResult(result, blocks[1])
    /\ NextBlock(Tail(blocks))
    /\ UNCHANGED <<tx, parse_calls, decoded, origins>>
    /\ UNCHANGED <<last_processed_priority_tx, factory_deps_hashes, consumed>>
    /\ UNCHANGED <<configVars, argVars, windowVars, queueVars>>
    /\ UNCHANGED <<rawVars, genesisVars, parseVars, retryVars, serviceVars, wireVars, saverVars>>

\* An end of the loop body after which the next window starts with its commit
\* logs.
AdvanceWindowSkipPriority ==
    /\ pc = "window_end"
    /\ IF filter_to_block = end_block
       THEN /\ pc' = "done"
            /\ UNCHANGED windowVars
       ELSE /\ current_block' = filter_to_block + 1
            /\ filter_to_block' = FilterToBlock(filter_to_block + 1, block_step, end_block)
            /\ windows' = windows + 1
            /\ UNCHANGED filters
            /\ pc' = "fetch_logs"
    /\ UNCHANGED panic
    /\ UNCHANGED <<configVars, argVars, queueVars, mergeVars, txVars>>
    /\ UNCHANGED <<rawVars, genesisVars, parseVars, retryVars, serviceVars, wireVars, saverVars>>

\* The end of the loop body: the run is finished when the window ended at
\* end_block, else the next window starts after filter_to_block.
AdvanceWindow ==
    /\ pc = "window_end"
    /\ IF filter_to_block = end_block
       THEN /\ pc' = "done"
            /\ UNCHANGED windowVars
       ELSE /\ current_block' = filter_to_block + 1
            /\ filter_to_block' = FilterToBlock(filter_to_block + 1, block_step, end_block)
            /\ windows' = windows + 1
            /\ UNCHANGED filters
            /\ pc' = "fetch_priority_txs"
    /\ UNCHANGED panic
    /\ UNCHANGED <<configVars, argVars, queueVars, mergeVars, txVars>>
    /\ UNCHANGED <<rawVars, genesisVars, parseVars, retryVars, serviceVars, wireVars, saverVars>>

NextFetch ==
    \/ GetBlocksToProcess
    \/ GetAllBlocksToProcess
    \/ FetchPriorityTxs
    \/ FetchLogs
    \/ GetTransactionByHash
    \/ ProcessTxData
    \/ ConsumePriorityTx
    \/ PushBlock
    \/ AdvanceWindow

SpecFetch == InitFetch /\ [][NextFetch]_vars

\* The fetcher is one async task that is polled until it returns or panics:
\* a step that can be taken is taken.
SpecFetchFair == SpecFetch /\ WF_vars(NextFetch)

(***************************************************************************)
(* Specification of one logical request to the L1 client: retry_call at    *)
(* its three call sites                                                    *)
(***************************************************************************)

InitRetry ==
    /\ RetryIdle
    /\ ServiceIdle
    /\ WireIdle
    /\ SaverIdle
    /\ RawIdle
    /\ GenesisIdle
    /\ ParseIdle
    /\ FetchIdle

\* A logical request starts: the log query of fetch_priority_txs or of
\* get_blocks_to_process, the block query of get_last_l1_block_number, or the
\* transaction fetch of get_blocks_to_process.
StartCall ==
    /\ call_site = "none"
    /\ call_site' \in {"logs", "block", "get_transaction_by_hash"}
    /\ call_result' = "pending"
    /\ UNCHANGED <<attempt, inner_attempt, requests, sleeps>>
    /\ UNCHANGED <<rawVars, genesisVars, parseVars, fetchVars, serviceVars, wireVars, saverVars>>

\* A loop with one iteration more.
HasNextAttemptOneMore(n) == n <= MAX_RETRIES

\* Whether the loop `for attempt in 1..=MAX_RETRIES` has another iteration
\* after iteration n.
HasNextAttempt(n) == n < MAX_RETRIES

\* One iteration of retry_call whose callback is a single client request
\* (logs, block): the request succeeds and its value is returned, or it
\* fails, the call sleeps, and goes on to the next iteration or returns
\* Err(err) after the last one.
RetryCall ==
    /\ call_site \in {"logs", "block"}
    /\ call_result = "pending"
    /\ requests' = requests + 1
    /\ \/ /\ call_result' = "Ok"
          /\ UNCHANGED <<attempt, sleeps>>
       \/ /\ sleeps' = sleeps + 1
          /\ IF HasNextAttempt(attempt)
             THEN /\ attempt' = attempt + 1
                  /\ UNCHANGED call_result
             ELSE /\ call_result' = "Err"
                  /\ UNCHANGED attempt
    /\ UNCHANGED <<call_site, inner_attempt>>
    /\ UNCHANGED <<rawVars, genesisVars, parseVars, fetchVars, serviceVars, wireVars, saverVars>>

\* The callback of the outer retry_call (get_transaction_by_hash) returned an
\* error: the outer call sleeps, and calls get_transaction_by_hash again, which
\* starts a retry_call of its own, or returns Err(GetTx) after its last
\* iteration.
OuterAttemptFailed ==
    /\ inner_attempt' = 1
    /\ IF HasNextAttempt(attempt)
       THEN /\ attempt' = attempt + 1
            /\ UNCHANGED call_result
       ELSE /\ call_result' = "Err"
            /\ UNCHANGED attempt

\* One get_tx request of the retry_call inside get_transaction_by_hash, which
\* is the callback of the retry_call in get_blocks_to_process.  The request
\* returns the transaction (Ok(Some(tx)): both calls return it), returns
\* Ok(None) (get_transaction_by_hash returns an error to the outer call), or
\* fails: the inner call sleeps and tries again, or returns its error to
\* get_transaction_by_hash, which returns it to the outer call.
GetTxRequest ==
    /\ call_site = "get_transaction_by_hash"
    /\ call_result = "pending"
    /\ requests' = requests + 1
    /\ \/ /\ call_result' = "Ok"
          /\ UNCHANGED <<attempt, inner_attempt, sleeps>>
       \/ /\ sleeps' = sleeps + 1
          /\ OuterAttemptFailed
       \/ IF HasNextAttempt(inner_attempt)
          THEN /\ sleeps' = sleeps + 1
               /\ inner_attempt' = inner_attempt + 1
               /\ UNCHANGED <<attempt, call_result>>
          ELSE /\ sleeps' = sleeps + 2
               /\ OuterAttemptFailed
    /\ UNCHANGED call_site
    /\ UNCHANGED <<rawVars, genesisVars, parseVars, fetchVars, serviceVars, wireVars, saverVars>>

NextRetry == StartCall \/ RetryCall \/ GetTxRequest

SpecRetry == InitRetry /\ [][NextRetry]_vars

(***************************************************************************)
(* Specification of ZkStackService                                         *)
(***************************************************************************)

OthersIdle ==
    /\ RawIdle
    /\ GenesisIdle
    /\ ParseIdle
    /\ FetchIdle
    /\ RetryIdle
    /\ WireIdle
    /\ SaverIdle

InitService ==
    /\ ServiceIdle
    /\ OthersIdle

otherVars == <<rawVars, genesisVars, parseVars, fetchVars, retryVars, wireVars, saverVars>>

\* add_layer(layer)
AddLayer ==
    /\ run_pc = "building"
    /\ Len(layers) < MaxLayers
    /\ \E kind \in LayerKinds :
          layers' = Append(layers, [name |-> Len(layers) + 1, result |-> kind.result,
                                    adds |-> kind.adds])
    /\ UNCHANGED <<setup_hook, run_pc, wiringVars, taskVars, resources_wired, setup_calls,
                   spawn_next, shutdownVars, run_result>>
    /\ UNCHANGED setup_result
    /\ UNCHANGED otherVars

\* with_setup(setup)
WithSetup ==
    /\ run_pc = "building"
    /\ setup_hook' = "Some"
    /\ setup_hook # "Some"
    /\ UNCHANGED <<layers, run_pc, wiringVars, taskVars, resources_wired, setup_calls,
                   spawn_next, shutdownVars, run_result>>
    /\ UNCHANGED setup_result
    /\ UNCHANGED otherVars

\* run(): the layers are taken out of the service.
Run ==
    /\ run_pc = "building"
    /\ wiring_layers' = layers
    /\ layers' = <<>>
    /\ run_pc' = "wiring"
    /\ UNCHANGED <<setup_hook, wired, errors, wire_order, taskVars, resources_wired,
                   setup_calls, spawn_next, shutdownVars, run_result>>
    /\ UNCHANGED setup_result
    /\ UNCHANGED otherVars

\* A loop that is left at the first layer that fails.
WireLayerBailing ==
    /\ run_pc = "wiring"
    /\ wired < Len(wiring_layers)
    /\ LET layer == wiring_layers[wired + 1]
           added == [k \in 1..Len(layer.adds) |-> StoredTask(Len(tasks) + k, layer.adds[k])]
       IN  /\ wire_order' = Append(wire_order, layer.name)
           /\ tasks' = tasks \o added
           /\ errors' = IF layer.result = "Err" THEN Append(errors, layer.name) ELSE errors
    /\ wired' = IF wiring_layers[wired + 1].result = "Err" THEN Len(wiring_layers)
                ELSE wired + 1
    /\ UNCHANGED <<builderVars, run_pc, wiring_layers, task_state, task_outcome,
                   join_handles, starts, finish_order, resources_wired, setup_calls,
                   spawn_next, shutdownVars, run_result>>
    /\ UNCHANGED setup_result
    /\ UNCHANGED otherVars

\* One iteration of `for layer in wiring_layers`: wire is invoked on the layer,
\* which adds its tasks to the service; its error is pushed to errors.
WireLayer ==
    /\ run_pc = "wiring"
    /\ wired < Len(wiring_layers)
    /\ LET layer == wiring_layers[wired + 1]
           added == [k \in 1..Len(layer.adds) |-> StoredTask(Len(tasks) + k, layer.adds[k])]
       IN  /\ wire_order' = Append(wire_order, layer.name)
           /\ tasks' = tasks \o added
           /\ errors' = IF layer.result = "Err" THEN Append(errors, layer.name) ELSE errors
    /\ wired' = wired + 1
    /\ UNCHANGED <<builderVars, run_pc, wiring_layers, task_state, task_outcome,
                   join_handles, starts, finish_order, resources_wired, setup_calls,
                   spawn_next, shutdownVars, run_result>>
    /\ UNCHANGED setup_result
    /\ UNCHANGED otherVars

\* An end of wiring that marks the resources as wired before it looks at the
\* tasks.
FinishWiringResourcesFirst ==
    /\ run_pc = "wiring"
    /\ wired = Len(wiring_layers)
    /\ IF errors # <<>>
       THEN /\ run_result' = RunErr("One or more task weren't able to start", 0)
            /\ run_pc' = "returned"
            /\ UNCHANGED <<setup_hook, taskVars, resources_wired, setup_calls>>
       ELSE IF tasks = <<>>
       THEN /\ run_result' = RunErr("No tasks to run", 0)
            /\ run_pc' = "returned"
            /\ resources_wired' = TRUE
            /\ UNCHANGED <<setup_hook, taskVars, setup_calls>>
       ELSE /\ tasks' = [i \in DOMAIN tasks |-> TaskRepr(tasks[i])]
            /\ task_state' = [i \in DOMAIN tasks |-> "unstarted"]
            /\ task_outcome' = [i \in DOMAIN tasks |-> "none"]
            /\ starts' = [i \in DOMAIN tasks |-> <<>>]
            /\ resources_wired' = TRUE
            /\ IF setup_hook = "Some"
               THEN /\ setup_hook' = "None"
                    /\ setup_calls' = setup_calls + 1
                    /\ run_pc' = "setup"
               ELSE /\ run_pc' = "spawning"
                    /\ UNCHANGED <<setup_hook, setup_calls>>
            /\ UNCHANGED <<join_handles, finish_order, run_result>>
    /\ UNCHANGED <<layers, wiringVars, spawn_next, shutdownVars>>
    /\ UNCHANGED setup_result
    /\ UNCHANGED otherVars

\* After the loop over the layers: the errors are reported and run bails; else
\* the tasks are taken out of the service and their futures created, run bails
\* when there is none, the resources are told that wiring is complete, and the
\* setup hook is called when there is one.
FinishWiring ==
    /\ run_pc = "wiring"
    /\ wired = Len(wiring_layers)
    /\ IF errors # <<>>
       THEN /\ run_result' = RunErr("One or more task weren't able to start", 0)
            /\ run_pc' = "returned"
            /\ UNCHANGED <<setup_hook, taskVars, resources_wired, setup_calls>>
       ELSE IF tasks = <<>>
       THEN /\ run_result' = RunErr("No tasks to run", 0)
            /\ run_pc' = "returned"
            /\ UNCHANGED <<setup_hook, taskVars, resources_wired, setup_calls>>
       ELSE /\ tasks' = [i \in DOMAIN tasks |-> TaskRepr(tasks[i])]
            /\ task_state' = [i \in DOMAIN tasks |-> "unstarted"]
            /\ task_outcome' = [i \in DOMAIN tasks |-> "none"]
            /\ starts' = [i \in DOMAIN tasks |-> <<>>]
            /\ resources_wired' = TRUE
            /\ IF setup_hook = "Some"
               THEN /\ setup_hook' = "None"
                    /\ setup_calls' = setup_calls + 1
                    /\ run_pc' = "setup"
               ELSE /\ run_pc' = "spawning"
                    /\ UNCHANGED <<setup_hook, setup_calls>>
            /\ UNCHANGED <<join_handles, finish_order, run_result>>
    /\ UNCHANGED <<layers, wiringVars, spawn_next, shutdownVars>>
    /\ UNCHANGED setup_result
    /\ UNCHANGED otherVars

\* The start of task i: its future is taken and spawned on the runtime, and
\* its join handle pushed.
Start(i, by) ==
    /\ tasks' = [tasks EXCEPT ![i].task = "None"]
    /\ task_state' = [task_state EXCEPT ![i] = "running"]
    /\ join_handles' = Append(join_handles, i)
    /\ starts' = [starts EXCEPT ![i] = Append(@, by)]

\* The setup hook launches one of the unstarted tasks through PreRun.
HookLaunchTask ==
    /\ run_pc = "setup"
    /\ \E i \in DOMAIN tasks :
          /\ tasks[i].task = "Some"
          /\ Start(i, "hook")
    /\ UNCHANGED <<builderVars, run_pc, wiringVars, task_outcome, finish_order,
                   resources_wired, setup_calls, spawn_next, shutdownVars, run_result>>
    /\ UNCHANGED setup_result
    /\ UNCHANGED otherVars

\* A hook whose error is dropped.
HookReturnsErrorDropped ==
    /\ run_pc = "setup"
    /\ setup_result' \in {"Ok", "Err"}
    /\ run_pc' = "spawning"
    /\ UNCHANGED <<builderVars, wiringVars, taskVars, resources_wired, setup_calls,
                   spawn_next, shutdownVars, run_result>>
    /\ UNCHANGED otherVars

\* The future of the setup hook resolves: its error is returned by run.
HookReturns ==
    /\ run_pc = "setup"
    /\ \/ /\ setup_result' = "Ok"
          /\ run_pc' = "spawning"
          /\ UNCHANGED run_result
       \/ /\ setup_result' = "Err"
          /\ run_pc' = "returned"
          /\ run_result' = RunErr("setup hook failed", 0)
    /\ UNCHANGED <<builderVars, wiringVars, taskVars, resources_wired, setup_calls,
                   spawn_next, shutdownVars>>
    /\ UNCHANGED otherVars

\* A spawn loop that spawns every task, started or not.
SpawnAgain ==
    /\ run_pc = "spawning"
    /\ IF spawn_next > Len(tasks)
       THEN /\ run_pc' = "select"
            /\ UNCHANGED <<taskVars, spawn_next>>
       ELSE /\ Start(spawn_next, "run")
            /\ UNCHANGED <<task_outcome, finish_order>>
            /\ spawn_next' = spawn_next + 1
            /\ UNCHANGED run_pc
    /\ UNCHANGED <<builderVars, wiringVars, resources_wired, setup_calls, shutdownVars,
                   run_result>>
    /\ UNCHANGED setup_result
    /\ UNCHANGED otherVars

\* One iteration of `for task in &mut tasks`: a task whose future was taken
\* during the pre-run is left alone, another one is spawned; after the loop
\* run waits in select_all.
Spawn ==
    /\ run_pc = "spawning"
    /\ IF spawn_next > Len(tasks)
       THEN /\ run_pc' = "select"
            /\ UNCHANGED <<taskVars, spawn_next>>
       ELSE /\ IF tasks[spawn_next].task = "None"
               THEN UNCHANGED <<tasks, task_state, join_handles, starts>>
               ELSE Start(spawn_next, "run")
            /\ UNCHANGED <<task_outcome, finish_order>>
            /\ spawn_next' = spawn_next + 1
            /\ UNCHANGED run_pc
    /\ UNCHANGED <<builderVars, wiringVars, resources_wired, setup_calls, shutdownVars,
                   run_result>>
    /\ UNCHANGED setup_result
    /\ UNCHANGED otherVars

\* A running task finishes, on its own or after the stop signal: it returns
\* Ok or an error, or panics.
TaskFinishes ==
    /\ run_pc \in {"setup", "spawning", "select", "joining"}
    /\ \E i \in DOMAIN tasks, outcome \in TaskOutcomes :
          /\ task_state[i] = "running"
          /\ task_state' = [task_state EXCEPT ![i] = "finished"]
          /\ task_outcome' = [task_outcome EXCEPT ![i] = outcome]
          /\ finish_order' = Append(finish_order, i)
    /\ UNCHANGED <<builderVars, run_pc, wiringVars, tasks, join_handles, starts,
                   resources_wired, setup_calls, spawn_next, shutdownVars, run_result>>
    /\ UNCHANGED setup_result
    /\ UNCHANGED otherVars

\* select_all returns (resolved, idx, remaining): the name is read at
\* tasks[idx], the failure flag is set from resolved, and the stop signal is
\* sent.
SelectAll ==
    /\ run_pc = "select"
    /\ select_all(join_handles, task_state) # 0
    /\ LET k == select_all(join_handles, task_state)
           resolved == task_outcome[join_handles[k]]
       IN  /\ idx' = k - 1
           /\ task_name' = tasks[k].name
           /\ failure' = (resolved # "Ok")
    /\ stop_signal' = TRUE
    /\ run_pc' = "joining"
    /\ UNCHANGED <<builderVars, wiringVars, taskVars, resources_wired, setup_calls,
                   spawn_next, shutdown_hooks, run_result>>
    /\ UNCHANGED setup_result
    /\ UNCHANGED otherVars

\* A shutdown that does not wait for the remaining tasks.
JoinAllNoWait ==
    /\ run_pc = "joining"
    /\ shutdown_hooks' =
          [i \in DOMAIN tasks |->
              IF tasks[i].after_node_shutdown = "Some" THEN "running" ELSE "none"]
    /\ tasks' = [i \in DOMAIN tasks |-> [tasks[i] EXCEPT !.after_node_shutdown = "None"]]
    /\ run_pc' = "shutdown_hooks"
    /\ UNCHANGED <<builderVars, wiringVars, task_state, task_outcome, join_handles, starts,
                   finish_order, resources_wired, setup_calls, spawn_next, stop_signal,
                   idx, failure, task_name, run_result>>
    /\ UNCHANGED setup_result
    /\ UNCHANGED otherVars

\* join_all(remaining) returns when every remaining task has finished; the
\* after_node_shutdown hooks that were provided are taken and spawned on the
\* local set.
JoinAll ==
    /\ run_pc = "joining"
    /\ \A i \in DOMAIN tasks : task_state[i] = "finished"
    /\ shutdown_hooks' =
          [i \in DOMAIN tasks |->
              IF tasks[i].after_node_shutdown = "Some" THEN "running" ELSE "none"]
    /\ tasks' = [i \in DOMAIN tasks |-> [tasks[i] EXCEPT !.after_node_shutdown = "None"]]
    /\ run_pc' = "shutdown_hooks"
    /\ UNCHANGED <<builderVars, wiringVars, task_state, task_outcome, join_handles, starts,
                   finish_order, resources_wired, setup_calls, spawn_next, stop_signal,
                   idx, failure, task_name, run_result>>
    /\ UNCHANGED setup_result
    /\ UNCHANGED otherVars

\* An after_node_shutdown hook completes.
ShutdownHookCompletes ==
    /\ run_pc = "shutdown_hooks"
    /\ \E i \in DOMAIN shutdown_hooks :
          /\ shutdown_hooks[i] = "running"
          /\ shutdown_hooks' = [shutdown_hooks EXCEPT ![i] = "done"]
    /\ UNCHANGED <<builderVars, run_pc, wiringVars, taskVars, resources_wired, setup_calls,
                   spawn_next, stop_signal, idx, failure, task_name, run_result>>
    /\ UNCHANGED setup_result
    /\ UNCHANGED otherVars

\* join_all over the hooks returns when all of them have completed; run
\* returns Ok, or the error that names the task.
Return ==
    /\ run_pc = "shutdown_hooks"
    /\ \A i \in DOMAIN shutdown_hooks : shutdown_hooks[i] # "running"
    /\ run_result' = IF failure THEN RunErr("Task failed", task_name) ELSE RunOk
    /\ run_pc' = "returned"
    /\ UNCHANGED <<builderVars, wiringVars, taskVars, resources_wired, setup_calls,
                   spawn_next, shutdownVars>>
    /\ UNCHANGED setup_result
    /\ UNCHANGED otherVars

NextService ==
    \/ AddLayer
    \/ WithSetup
    \/ Run
    \/ WireLayer
    \/ FinishWiring
    \/ HookLaunchTask
    \/ HookReturns
    \/ Spawn
    \/ TaskFinishes
    \/ SelectAll
    \/ JoinAll
    \/ ShutdownHookCompletes
    \/ Return

SpecService == InitService /\ [][NextService]_vars

(***************************************************************************)
(* Specification of EthTxManagerLayer::wire                                *)
(***************************************************************************)

InitWire ==
    /\ eth_sender_config \in EthConfigs
    /\ wire_input \in WireInputs
    /\ wire_output = WireNotCalled
    /\ RawIdle
    /\ GenesisIdle
    /\ ParseIdle
    /\ FetchIdle
    /\ RetryIdle
    /\ ServiceIdle
    /\ SaverIdle

\* The call wire(self, input).
Wire ==
    /\ wire_output.status = "not_called"
    /\ wire_output' = wire(eth_sender_config, wire_input)
    /\ UNCHANGED <<eth_sender_config, wire_input>>
    /\ UNCHANGED <<rawVars, genesisVars, parseVars, fetchVars, retryVars, serviceVars,
                   saverVars>>

NextWire == Wire

SpecWire == InitWire /\ [][NextWire]_vars

(***************************************************************************)
(* Specification of WitnessVectorGeneratorJobSaver                         *)
(***************************************************************************)

InitSaver ==
    /\ SaverIdle
    /\ RawIdle
    /\ GenesisIdle
    /\ ParseIdle
    /\ FetchIdle
    /\ RetryIdle
    /\ ServiceIdle
    /\ WireIdle

nonSaverVars == <<rawVars, genesisVars, parseVars, fetchVars, retryVars, serviceVars,
                  wireVars>>

\* sender.send((payload, metadata)) resolves: with an error when the receiver
\* is closed, which save_result returns with its context; else the message is
\* in the channel and save_result returns Ok(()).
Send(data) ==
    IF receiver_closed
    THEN /\ saves' = Append(saves, Saved(data, "Err"))
         /\ UNCHANGED <<buffer, sent>>
    ELSE /\ buffer' = Append(buffer, <<data.result.payload, data.metadata>>)
         /\ sent' = Append(sent, <<data.result.payload, data.metadata>>)
         /\ saves' = Append(saves, Saved(data, "Ok"))

\* A save_result that returns an error for a failed job.
SaveResultErrReturned ==
    /\ pending = NoData
    /\ Len(saves) < MaxSaves
    /\ \E data \in SaveData :
          IF data.result.ok
          THEN IF receiver_closed \/ Len(buffer) < ChannelCapacity
               THEN Send(data) /\ UNCHANGED pending
               ELSE pending' = data /\ UNCHANGED <<buffer, sent, saves>>
          ELSE /\ saves' = Append(saves, Saved(data, "Err"))
               /\ UNCHANGED <<buffer, pending, sent>>
    /\ UNCHANGED receiver_closed
    /\ UNCHANGED nonSaverVars

\* save_result(data): for Ok(payload) the pair (payload, metadata) is sent,
\* which waits while the channel is full; for Err(err) nothing is done; the
\* call returns Ok(()).
SaveResult ==
    /\ pending = NoData
    /\ Len(saves) < MaxSaves
    /\ \E data \in SaveData :
          IF data.result.ok
          THEN IF receiver_closed \/ Len(buffer) < ChannelCapacity
               THEN Send(data) /\ UNCHANGED pending
               ELSE pending' = data /\ UNCHANGED <<buffer, sent, saves>>
          ELSE /\ saves' = Append(saves, Saved(data, "Ok"))
               /\ UNCHANGED <<buffer, pending, sent>>
    /\ UNCHANGED receiver_closed
    /\ UNCHANGED nonSaverVars

\* The send that waited resolves: there is room in the channel, or the
\* receiver is closed.
SendResolves ==
    /\ pending # NoData
    /\ receiver_closed \/ Len(buffer) < ChannelCapacity
    /\ Send(pending)
    /\ pending' = NoData
    /\ UNCHANGED receiver_closed
    /\ UNCHANGED nonSaverVars

\* The prover takes a message out of the channel.
Receive ==
    /\ buffer # <<>>
    /\ buffer' = Tail(buffer)
    /\ UNCHANGED <<receiver_closed, pending, sent, saves>>
    /\ UNCHANGED nonSaverVars

\* The receiver is closed or dropped.
CloseReceiver ==
    /\ ~receiver_closed
    /\ receiver_closed' = TRUE
    /\ UNCHANGED <<buffer, pending, sent, saves>>
    /\ UNCHANGED nonSaverVars

NextSaver ==
    \/ SaveResult
    \/ SendResolves
    \/ Receive
    \/ CloseReceiver

SpecSaver == InitSaver /\ [][NextSaver]_vars

(***************************************************************************)
(* Claims about process_raw_entries                                        *)
(***************************************************************************)

PairOf(access) == <<access[1], access[2]>>
PairsOf(accesses) == {PairOf(accesses[i]) : i \in DOMAIN accesses}
WritesTo(accesses, pair) == {i \in DOMAIN accesses : PairOf(accesses[i]) = pair}
NoDuplicateTriples(accesses) ==
    \A i, j \in DOMAIN accesses :
        (PairOf(accesses[i]) = PairOf(accesses[j]) /\ accesses[i][4] = accesses[j][4])
            => i = j
\* The position of the write with the greatest write index among those to pair.
LastWrite(accesses, pair) ==
    CHOOSE i \in WritesTo(accesses, pair) :
        \A j \in WritesTo(accesses, pair) : accesses[j][4] <= accesses[i][4]
\* The smallest write index among the writes to pair.
FirstWriteIndex(accesses, pair) ==
    LET i == CHOOSE i \in WritesTo(accesses, pair) :
                 \A j \in WritesTo(accesses, pair) : accesses[i][4] <= accesses[j][4]
    IN  accesses[i][4]
EntriesOf(entries, pair) ==
    {k \in DOMAIN entries :
        entries[k].key = derive_final_address_for_params(pair[1], pair[2])}
LeafIndexOf(entries, pair) ==
    entries[CHOOSE k \in EntriesOf(entries, pair) : TRUE].leaf_index
PairLess(p, q) == p[1] < q[1] \/ (p[1] = q[1] /\ p[2] < q[2])

\* C5: in the tree entries returned for a list of writes, the value stored for
\* every (address, key) pair is the value of the write with the greatest
\* write_index for that pair, whatever the order of the writes in the list.
C5_TieBreakMaxWriteIndex ==
    raw_result.status = "ok" =>
        \A pair \in PairsOf(block_batched_accesses) :
            /\ EntriesOf(raw_result.entries, pair) # {}
            /\ \A k \in EntriesOf(raw_result.entries, pair) :
                  raw_result.entries[k].value =
                    block_batched_accesses[LastWrite(block_batched_accesses, pair)][3]

\* Three writes to one pair arriving with write indices 3, 7, 5, the write
\* with index 7 carrying another value than the two others.
C5_Witness ==
    /\ raw_result.status = "ok"
    /\ Len(block_batched_accesses) = 3
    /\ Cardinality(PairsOf(block_batched_accesses)) = 1
    /\ <<block_batched_accesses[1][4], block_batched_accesses[2][4],
          block_batched_accesses[3][4]>> = <<3, 7, 5>>
    /\ block_batched_accesses[2][3] # block_batched_accesses[1][3]
    /\ block_batched_accesses[2][3] # block_batched_accesses[3][3]

\* C6: for a non-empty input without duplicate (address, key, write_index)
\* triples the call returns exactly one tree entry per distinct pair, and the
\* leaf indices along the output are 1, 2, ..., k.
C6_OneEntryPerPairIndexedFromOne ==
    (/\ raw_result.status # "not_called"
     /\ block_batched_accesses # <<>>
     /\ NoDuplicateTriples(block_batched_accesses)) =>
        /\ raw_result.status = "ok"
        /\ Len(raw_result.entries) = Cardinality(PairsOf(block_batched_accesses))
        /\ \A pair \in PairsOf(block_batched_accesses) :
              Cardinality(EntriesOf(raw_result.entries, pair)) = 1
        /\ \A k \in DOMAIN raw_result.entries : raw_result.entries[k].leaf_index = k

\* Three writes to two pairs, one pair written twice.
C6_Witness ==
    /\ raw_result.status = "ok"
    /\ Len(block_batched_accesses) = 3
    /\ Len(raw_result.entries) = 2

\* C7 as claimed: a pair whose first write (smallest write_index) precedes the
\* first write of another pair has the smaller leaf index.
C7_LeafIndexInArrivalOrder ==
    raw_result.status = "ok" =>
        \A p, q \in PairsOf(block_batched_accesses) :
            FirstWriteIndex(block_batched_accesses, p)
                < FirstWriteIndex(block_batched_accesses, q)
            => LeafIndexOf(raw_result.entries, p) < LeafIndexOf(raw_result.entries, q)

\* C7 as amended: leaf indices follow the ascending (address, key) order of the
\* pairs: pair P has a smaller leaf index than pair Q exactly when P's address
\* is smaller, or the addresses are equal and P's key is smaller.
C7_LeafIndexInKeyOrder ==
    raw_result.status = "ok" =>
        \A p, q \in PairsOf(block_batched_accesses) :
            LeafIndexOf(raw_result.entries, p) < LeafIndexOf(raw_result.entries, q)
                <=> PairLess(p, q)

\* The pair written first, in list order and in write_index order, is the
\* greater one in (address, key) order, and it gets the greater leaf index.
C7_Witness ==
    /\ raw_result.status = "ok"
    /\ Len(block_batched_accesses) = 2
    /\ PairLess(PairOf(block_batched_accesses[2]), PairOf(block_batched_accesses[1]))
    /\ block_batched_accesses[1][4] < block_batched_accesses[2][4]
    /\ LeafIndexOf(raw_result.entries, PairOf(block_batched_accesses[1])) = 2

\* C30: for an input that holds two writes equal in address, key and write
\* index, whatever their values and wherever they are in the list,
\* process_raw_entries panics with "must be unique" and returns no tree entry.
C30_DuplicateTriplePanics ==
    (raw_result.status # "not_called" /\ ~NoDuplicateTriples(block_batched_accesses)) =>
        /\ raw_result.status = "panic"
        /\ raw_result.msg = "must be unique"
        /\ raw_result.entries = <<>>

\* Two writes to (1, 1) with write index 5 and different values, a write to
\* another address between them.
C30_Witness ==
    /\ raw_result.status = "panic"
    /\ block_batched_accesses = <<<<1, 1, 1, 5>>, <<2, 1, 1, 3>>, <<1, 1, 2, 5>>>>

\* C35 as claimed: for every input without duplicate triples, the empty list
\* included, the call returns one tree entry per distinct pair.
C35_TotalWithoutDuplicateTriples ==
    (raw_result.status # "not_called" /\ NoDuplicateTriples(block_batched_accesses)) =>
        /\ raw_result.status = "ok"
        /\ Len(raw_result.entries) = Cardinality(PairsOf(block_batched_accesses))

\* The lists that hold the elements of accesses in another order.
PermutationsOf(accesses) ==
    LET n == Len(accesses)
    IN  {[i \in 1..n |-> accesses[f[i]]] :
            f \in {g \in [1..n -> 1..n] : \A i, j \in 1..n : g[i] = g[j] => i = j}}
\* The (address, key) pair of a tree entry.
PairOfEntry(entry) == <<entry.key[2], entry.key[3]>>

\* C36: for an input without duplicate triples, every permutation of the
\* input gives the outcome the input gives, and the tree entries returned are
\* in ascending order of (address, key), indexed along that order.
C36_OrderIndependent ==
    (raw_result.status # "not_called" /\ NoDuplicateTriples(block_batched_accesses)) =>
        /\ \A other \in PermutationsOf(block_batched_accesses) :
              process_raw_entries(other) = raw_result
        /\ \A k, l \in DOMAIN raw_result.entries :
              k < l => /\ PairLess(PairOfEntry(raw_result.entries[k]),
                                   PairOfEntry(raw_result.entries[l]))
                       /\ raw_result.entries[k].leaf_index < raw_result.entries[l].leaf_index

\* Three writes that arrive in descending order of (address, key, write
\* index): the entry of pair (1, 1) comes first and holds the value of the
\* write with index 7.
C36_Witness ==
    /\ block_batched_accesses = <<<<2, 1, 1, 3>>, <<1, 1, 2, 7>>, <<1, 1, 1, 5>>>>
    /\ raw_result.status = "ok"
    /\ Len(raw_result.entries) = 2
    /\ raw_result.entries[1].value = 2
    /\ PairOfEntry(raw_result.entries[1]) = <<1, 1>>

(***************************************************************************)
(* Claims about reconstruct_genesis_state, get_genesis_factory_deps and    *)
(* get_genesis_state                                                       *)
(***************************************************************************)

\* The records of the lines of the dump whose miniblock number is 0.
RECURSIVE GenesisRecords(_)
GenesisRecords(lines) ==
    IF lines = <<>> THEN <<>>
    ELSE LET rest == GenesisRecords(Tail(lines))
             line == Head(lines)
         IN  IF line.miniblock_number = 0
             THEN <<<<line.address, line.key, line.value, line.op_number>>>> \o rest
             ELSE rest
WellFormed(lines) == \A i \in DOMAIN lines : lines[i].shape = "ok"

\* C18: of a well-formed dump, reconstruct_genesis_state hands exactly the
\* records with miniblock number 0 to process_raw_entries, with the operation
\* number as write index, wherever they stand in the file.
C18_KeepsEveryGenesisRecord ==
    (raw_result.status # "not_called" /\ WellFormed(dump)) =>
        block_batched_accesses = GenesisRecords(dump)

\* The bytecodes returned for the system contracts: all but the last two.
SystemPart(bytecodes) == SubSeq(bytecodes, 1, Len(bytecodes) - 2)
NoBytecodeHashTwice(bytecodes) ==
    \A i, j \in DOMAIN bytecodes :
        hash_bytecode(bytecodes[i]) = hash_bytecode(bytecodes[j]) => i = j

\* C19 as claimed: no two bytecodes returned by get_genesis_factory_deps have
\* the same hash.
C19_NoHashTwiceInGenesisDeps ==
    genesis_factory_deps.called => NoBytecodeHashTwice(genesis_factory_deps.bytecodes)

\* C19 as amended: get_genesis_factory_deps returns the bytecodes of the
\* system contracts, each hash once and in the order of its first contract,
\* followed by the bootloader and the default account as they are.
C19_SystemContractsDeduplicated ==
    genesis_factory_deps.called =>
        LET bytecodes == genesis_factory_deps.bytecodes
            system == SystemPart(bytecodes)
        IN  /\ Len(bytecodes) >= 2
            /\ NoBytecodeHashTwice(system)
            /\ {system[i] : i \in DOMAIN system}
                  = {contracts[i].bytecode : i \in DOMAIN contracts}
            /\ \A i, j \in DOMAIN system :
                  i < j =>
                     \E m \in DOMAIN contracts :
                        /\ contracts[m].bytecode = system[i]
                        /\ \A n \in DOMAIN contracts :
                              contracts[n].bytecode = system[j] => m < n
            /\ bytecodes[Len(bytecodes) - 1]
                  = be_words_to_bytes(base_system_contracts.bootloader.code)
            /\ bytecodes[Len(bytecodes)]
                  = be_words_to_bytes(base_system_contracts.default_aa.code)

\* A registry of three contracts, the first and the third with the same
\* bytecode, which is the bootloader's as well: it is returned once for the
\* system contracts and once more for the bootloader.
C19_Witness ==
    /\ genesis_factory_deps.called
    /\ Len(contracts) = 3
    /\ contracts[1].bytecode = contracts[3].bytecode
    /\ contracts[1].bytecode # contracts[2].bytecode
    /\ be_words_to_bytes(base_system_contracts.bootloader.code) = contracts[1].bytecode
    /\ genesis_factory_deps.bytecodes
          = <<contracts[1].bytecode, contracts[2].bytecode, contracts[1].bytecode,
              be_words_to_bytes(base_system_contracts.default_aa.code)>>

\* The last contract of the registry at an address.
LastContractAt(address) ==
    CHOOSE m \in DOMAIN contracts :
        /\ contracts[m].address = address
        /\ \A n \in DOMAIN contracts : contracts[n].address = address => n <= m

FirstThreshold == protocol_versioning.v2_start_batch_number
SecondThreshold == protocol_versioning.v3_start_batch_number

\* C3 as claimed: with a versioned configuration every element is decoded as
\* V1 when the L1 block number is below the first threshold, as V2 when it is
\* at or after the first and below the second, as V3 when it is at or after
\* the second.
C3_FormatByThresholds ==
    protocol_versioning.kind = "AllVersions" =>
        \A i \in DOMAIN parse_result.decoders :
            /\ l1_block_number < FirstThreshold => parse_result.decoders[i] = "V1"
            /\ (l1_block_number >= FirstThreshold /\ l1_block_number < SecondThreshold)
                  => parse_result.decoders[i] = "V2"
            /\ l1_block_number >= SecondThreshold => parse_result.decoders[i] = "V3"

\* C3 as amended: with a versioned configuration every element is decoded as
\* V3 when the L1 block number is at or after the second threshold, as V2 when
\* it is at or after the first and below the second, and as V1 when it is
\* below both thresholds.
C3_FormatBySecondThresholdFirst ==
    protocol_versioning.kind = "AllVersions" =>
        \A i \in DOMAIN parse_result.decoders :
            /\ (l1_block_number < FirstThreshold /\ l1_block_number < SecondThreshold)
                  => parse_result.decoders[i] = "V1"
            /\ (l1_block_number >= FirstThreshold /\ l1_block_number < SecondThreshold)
                  => parse_result.decoders[i] = "V2"
            /\ l1_block_number >= SecondThreshold => parse_result.decoders[i] = "V3"

\* Two elements decoded at a block equal to the first threshold and below the
\* second one.
C3_Witness ==
    /\ protocol_versioning.kind = "AllVersions"
    /\ l1_block_number = FirstThreshold
    /\ l1_block_number < SecondThreshold
    /\ parse_result.status = "Ok"
    /\ parse_result.decoders = <<"V2", "V2">>

\* C4: with OnlyV3 every element of every commit call is decoded with the V3
\* (blob) decoder at every L1 block number, block 0 included.
C4_OnlyV3AlwaysBlobDecoder ==
    protocol_versioning.kind = "OnlyV3" =>
        \A i \in DOMAIN parse_result.decoders : parse_result.decoders[i] = "V3"

\* A call at L1 block 0 under OnlyV3 that decoded two elements.
C4_Witness ==
    /\ protocol_versioning.kind = "OnlyV3"
    /\ l1_block_number = 0
    /\ parse_result.status = "Ok"
    /\ Len(parse_result.decoders) = 2

\* The first of the four calldata checks that fails, in the order of the code.
FirstFailedCalldataCheck ==
    IF calldata.len < SelectorLen THEN "too short"
    ELSE IF calldata.selector \notin {commit_functions[k] : k \in DOMAIN commit_functions}
    THEN "signature not found"
    ELSE IF ~calldata.body.ok THEN "abi error"
    ELSE IF Len(calldata.body.tokens) \notin {2, 3} THEN "invalid number of parameters"
    ELSE "none"

\* C10: parse_calldata returns InvalidCalldata without decoding any element
\* when the input is shorter than the selector, the selector is no known
\* commit function, ABI decoding fails or the number of arguments is neither 2
\* nor 3; the error reported is that of the first of these checks that fails.
C10_InvalidCalldataBeforeAnyDecode ==
    (parse_result.status # "not_called" /\ FirstFailedCalldataCheck # "none") =>
        parse_result = ParseErr("InvalidCalldata", FirstFailedCalldataCheck, <<>>)

\* A call of a known commit function with four arguments, the last a
\* non-empty array of batches.
C10_Witness ==
    /\ parse_result.status = "Err"
    /\ parse_result.msg = "invalid number of parameters"
    /\ Len(calldata.body.tokens) = 4
    /\ calldata.body.tokens[4].t = "Array"
    /\ calldata.body.tokens[4].elems # <<>>

\* The previous-state digest argument of the call, when the four calldata
\* checks pass.
StoredBlockInfoArg == calldata.body.tokens[Len(calldata.body.tokens) - 1]
\* The digest cannot be destructured into its fields: it is no tuple, the
\* tuple is too short to hold both fields, or one of them is no unsigned
\* integer.
StoredBlockInfoMalformed(token) ==
    \/ token.t # "Tuple"
    \/ Len(token.fields) < 3
    \/ token.fields[1].t # "Uint"
    \/ token.fields[3].t # "Uint"

\* C11: whenever the previous-state digest argument cannot be destructured,
\* parse_calldata returns the error InvalidStoredBlockInfo: it does not panic
\* and reports no other error kind.
C11_InvalidStoredBlockInfoForEveryMalformedDigest ==
    (/\ parse_result.status # "not_called"
     /\ FirstFailedCalldataCheck = "none"
     /\ StoredBlockInfoMalformed(StoredBlockInfoArg)) =>
        /\ parse_result.status = "Err"
        /\ parse_result.err = "InvalidStoredBlockInfo"

\* The per-batch data array of the call, when the call gets as far as
\* parse_commit_block_info with an array.
ReachesElementDecoding ==
    /\ parse_result.status # "not_called"
    /\ FirstFailedCalldataCheck = "none"
    /\ ~StoredBlockInfoMalformed(StoredBlockInfoArg)
    /\ calldata.body.tokens[Len(calldata.body.tokens)].t = "Array"
NewBlocksElems == calldata.body.tokens[Len(calldata.body.tokens)].elems
ElemDecodes(i) == DecodeElem(protocol_versioning, l1_block_number, NewBlocksElems[i])

\* C12: decoding the per-batch data array is all-or-nothing: when an element
\* fails to decode the call returns an error and no batch, and when every
\* element decodes the call returns one batch per element, in array order.
C12_ElementDecodingAllOrNothing ==
    ReachesElementDecoding =>
        IF \E i \in DOMAIN NewBlocksElems : ~ElemDecodes(i).ok
        THEN /\ parse_result.status = "Err"
             /\ parse_result.blocks = <<>>
        ELSE /\ parse_result.status = "Ok"
             /\ Len(parse_result.blocks) = Len(NewBlocksElems)
             /\ \A i \in DOMAIN NewBlocksElems : parse_result.blocks[i] = NewBlocksElems[i].block

\* A call whose first element decodes and whose second element does not.
C12_Witness ==
    /\ ReachesElementDecoding
    /\ Len(NewBlocksElems) = 2
    /\ ElemDecodes(1).ok
    /\ ~ElemDecodes(2).ok
    /\ parse_result.status = "Err"

(***************************************************************************)
(* Claims about ZkStackService                                             *)
(***************************************************************************)

NothingStarted ==
    /\ join_handles = <<>>
    /\ \A i \in DOMAIN starts : starts[i] = <<>>
    /\ \A i \in DOMAIN task_state : task_state[i] = "unstarted"
    /\ finish_order = <<>>
SomeWiredLayerFailed == \E k \in 1..wired : wiring_layers[k].result = "Err"

\* C21: run invokes wire on the layers in the order they were added and goes
\* on after a layer has failed; once a layer has failed, run returns an error
\* after wire was invoked on every layer, and no task is started, the setup
\* hook is not called and the stop signal is not sent.
C21_EveryLayerWiredThenError ==
    /\ Len(wire_order) = wired
    /\ \A k \in DOMAIN wire_order : wire_order[k] = k /\ wiring_layers[k].name = k
    /\ SomeWiredLayerFailed =>
          /\ run_pc \in {"wiring", "returned"}
          /\ NothingStarted
          /\ setup_calls = 0
          /\ ~stop_signal
          /\ run_pc = "returned" =>
                /\ wired = Len(wiring_layers)
                /\ run_result = RunErr("One or more task weren't able to start", 0)

\* A service with a setup hook and three layers, the first of which fails and
\* the last of which adds a task.
C21_Witness ==
    /\ run_pc = "returned"
    /\ Len(wiring_layers) = 3
    /\ wiring_layers[1].result = "Err"
    /\ wiring_layers[2].result = "Ok"
    /\ wiring_layers[3].adds # <<>>
    /\ setup_hook = "Some"
    /\ wire_order = <<1, 2, 3>>

\* C22: when every layer was wired without an error and no task was added,
\* run returns the error "No tasks to run": the setup hook is not called, the
\* resources are not told that wiring is complete and nothing is spawned.
C22_NoTasksToRun ==
    (run_pc = "returned" /\ errors = <<>> /\ tasks = <<>>) =>
        /\ run_result = RunErr("No tasks to run", 0)
        /\ setup_calls = 0
        /\ ~resources_wired
        /\ NothingStarted
        /\ ~stop_signal

\* A service with a setup hook and two layers that add no task.
C22_Witness ==
    /\ run_pc = "returned"
    /\ Len(wiring_layers) = 2
    /\ errors = <<>>
    /\ tasks = <<>>
    /\ setup_hook = "Some"

\* The tasks the layers add, in order.
RECURSIVE AddedKinds(_)
AddedKinds(ls) ==
    IF ls = <<>> THEN <<>>
    ELSE AddedKinds(SubSeq(ls, 1, Len(ls) - 1)) \o ls[Len(ls)].adds
StartedBy(i, by) == \E k \in DOMAIN starts[i] : starts[i][k] = by

\* C23: the setup hook is called once, after wire was invoked on every layer
\* and every task was added; while it executes, every task that is started
\* was launched by the hook; when it returns an error, run returns that error
\* and the service has spawned no task.
C23_SetupHookBeforeTasks ==
    /\ setup_calls <= 1
    /\ setup_calls = 1 =>
          /\ wired = Len(wiring_layers)
          /\ Len(tasks) = Len(AddedKinds(wiring_layers))
    /\ run_pc = "setup" =>
          \A i \in DOMAIN tasks :
             /\ ~StartedBy(i, "run")
             /\ task_state[i] # "unstarted" => starts[i] = <<"hook">>
    /\ setup_result = "Err" =>
          /\ run_pc = "returned"
          /\ run_result = RunErr("setup hook failed", 0)
          /\ \A i \in DOMAIN tasks : ~StartedBy(i, "run")

\* A hook that launched one of two tasks and returned an error.
C23_Witness ==
    /\ setup_result = "Err"
    /\ Len(tasks) = 2
    /\ starts[2] = <<"hook">>
    /\ starts[1] = <<>>

AllTasksFinished == \A i \in DOMAIN task_state : task_state[i] = "finished"
Provided(i) == AddedKinds(wiring_layers)[i].after_node_shutdown = "Some"

\* C24: the stop signal is sent only after a task has finished; the
\* after_node_shutdown hooks run only after every task has finished, and run
\* returns only after the hook of every task that provided one has completed,
\* the task that finished first included.
C24_ShutdownOrder ==
    /\ stop_signal => finish_order # <<>>
    /\ run_pc \in {"setup", "spawning", "select"} => ~stop_signal
    /\ shutdown_hooks # <<>> =>
          /\ stop_signal
          /\ AllTasksFinished
          /\ \A i \in DOMAIN tasks : Provided(i) <=> shutdown_hooks[i] # "none"
    /\ (run_pc = "returned" /\ stop_signal) =>
          /\ shutdown_hooks # <<>>
          /\ \A i \in DOMAIN tasks : Provided(i) => shutdown_hooks[i] = "done"

\* A run of two tasks with hooks: the task that finished first failed.
C24_Witness ==
    /\ run_pc = "returned"
    /\ Len(tasks) = 2
    /\ Len(finish_order) = 2
    /\ task_outcome[finish_order[1]] = "Err"
    /\ shutdown_hooks = <<"done", "done">>
    /\ run_result.status = "Err"

ReturnedAfterShutdown == run_pc = "returned" /\ stop_signal

\* C25 as claimed: run returns Ok exactly when the task that finished first
\* completed with Ok.
C25_ResultOfFirstFinished ==
    ReturnedAfterShutdown =>
        (run_result.status = "Ok" <=> task_outcome[finish_order[1]] = "Ok")

\* C25 as amended: run returns the result of the task whose join handle
\* select_all yields, which is the first handle of the list whose task has
\* finished when run polls: Ok exactly when that task completed with Ok, an
\* error when it returned an error or panicked; what the other tasks return
\* does not change the result.
C25_ResultOfSelectedTask ==
    /\ [](stop_signal =>
            /\ task_state[join_handles[idx + 1]] = "finished"
            /\ failure <=> task_outcome[join_handles[idx + 1]] # "Ok")
    /\ [](ReturnedAfterShutdown =>
            (run_result.status = "Ok" <=> task_outcome[join_handles[idx + 1]] = "Ok"))
    /\ [][/\ stop_signal => (failure' = failure /\ idx' = idx)
          /\ (~stop_signal /\ stop_signal') =>
                \A j \in 1..idx' : task_state[join_handles[j]] # "finished"]_vars

\* A run that returns Ok although the task that finished first returned an
\* error: a task with an earlier join handle had finished as well when run
\* polled.
C25_Witness ==
    /\ ReturnedAfterShutdown
    /\ run_result.status = "Ok"
    /\ task_outcome[finish_order[1]] = "Err"
    /\ join_handles[idx + 1] # finish_order[1]

\* C33 as claimed: the task name that run logs and puts into its error is
\* the name of the task whose join handle select_all yielded.
C33_NameOfSelectedTask ==
    /\ stop_signal => task_name = tasks[join_handles[idx + 1]].name
    /\ (run_pc = "returned" /\ stop_signal /\ failure) =>
          run_result.task_name = tasks[join_handles[idx + 1]].name

SpawnLoopDone == run_pc \in {"select", "joining", "shutdown_hooks"} \/ ReturnedAfterShutdown

\* C34: no task is started twice, a task launched by the setup hook is not
\* spawned by run, and when the spawn loop is done every task was started
\* once and has one join handle.
C34_EveryTaskStartedOnce ==
    /\ \A i \in DOMAIN starts : Len(starts[i]) <= 1
    /\ \A i \in DOMAIN starts : ~(StartedBy(i, "hook") /\ StartedBy(i, "run"))
    /\ \A j, k \in DOMAIN join_handles : join_handles[j] = join_handles[k] => j = k
    /\ \A k \in DOMAIN join_handles : starts[join_handles[k]] # <<>>
    /\ SpawnLoopDone =>
          /\ \A i \in DOMAIN tasks : Len(starts[i]) = 1 /\ tasks[i].task = "None"
          /\ {join_handles[k] : k \in DOMAIN join_handles} = DOMAIN tasks

\* Three tasks, the second of which was launched by the setup hook and the
\* two others spawned by run.
C34_Witness ==
    /\ run_pc = "select"
    /\ starts = <<<<"run">>, <<"hook">>, <<"run">>>>
    /\ join_handles = <<2, 1, 3>>

(***************************************************************************)
(* Claims about L1Fetcher                                                  *)
(***************************************************************************)

\* The consumptions made for the batch at position p of the output.
ConsumedBy(p) == {i \in DOMAIN consumed : consumed[i].batch = p}
\* The priority operations of the batches before position p.
RECURSIVE OpsBefore(_, _)
OpsBefore(batches, p) ==
    IF p <= 1 THEN 0
    ELSE OpsBefore(batches, p - 1) + batches[p - 1].priority_operations_count

\* C1: every consumption reads the queue at the cursor and moves the cursor on
\* by one, so the i-th consumption of a run takes the i-th transaction of the
\* queue (ascending serial ids, none taken twice); every batch of the output
\* with priority_operations_count = n took exactly n transactions, those that
\* follow the ones taken by the batches before it.
C1_PriorityTxsConsumedOnceInOrder ==
    /\ Len(consumed) = last_processed_priority_tx
    /\ last_processed_priority_tx <= Len(priority_txs)
    /\ \A i \in DOMAIN consumed :
          /\ consumed[i].index = i - 1
          /\ consumed[i].serial_id = priority_txs[i].serial_id
          /\ \A j \in DOMAIN consumed : i < j => consumed[i].serial_id < consumed[j].serial_id
    /\ \A p \in DOMAIN result :
          ConsumedBy(p) =
              {OpsBefore(result, p) + k : k \in 1..result[p].priority_operations_count}

\* A finished run in which a batch number occurs twice, each occurrence taking
\* one priority transaction.
C1_Witness ==
    /\ pc = "done"
    /\ Len(result) = 2
    /\ result[1].l1_batch_number = result[2].l1_batch_number
    /\ result[1].priority_operations_count = 1
    /\ result[2].priority_operations_count = 1
    /\ Len(consumed) = 2

\* The factory deps of all batches of the output, in order.
RECURSIVE AllFactoryDeps(_)
AllFactoryDeps(batches) ==
    IF batches = <<>> THEN <<>>
    ELSE AllFactoryDeps(SubSeq(batches, 1, Len(batches) - 1))
            \o batches[Len(batches)].factory_deps
\* The factory deps merged into the batches of the output from priority
\* transactions: what follows each batch's own decoded factory deps.
RECURSIVE MergedFactoryDeps(_, _)
MergedFactoryDeps(batches, asDecoded) ==
    IF batches = <<>> THEN <<>>
    ELSE LET n == Len(batches)
         IN  MergedFactoryDeps(SubSeq(batches, 1, n - 1), asDecoded)
                \o SubSeq(batches[n].factory_deps,
                          Len(asDecoded[n].factory_deps) + 1, Len(batches[n].factory_deps))
NoHashTwice(deps) ==
    \A i, j \in DOMAIN deps : hash_bytecode(deps[i]) = hash_bytecode(deps[j]) => i = j

\* C2 as claimed: no bytecode hash occurs twice among the factory deps of all
\* batches of the output.
C2_NoHashTwiceInOutput == NoHashTwice(AllFactoryDeps(result))

\* C2 as amended: no bytecode hash occurs twice among the factory deps merged
\* into the batches of the output from priority transactions, and every one of
\* them is in the hash set; the batches' own decoded factory deps are kept as
\* decoded.
C2_NoHashTwiceAmongMergedDeps ==
    /\ NoHashTwice(MergedFactoryDeps(result, decoded))
    /\ \A p \in DOMAIN result :
          /\ Len(decoded[p].factory_deps) <= Len(result[p].factory_deps)
          /\ SubSeq(result[p].factory_deps, 1, Len(decoded[p].factory_deps))
                = decoded[p].factory_deps
    /\ LET merged == MergedFactoryDeps(result, decoded)
       IN  {hash_bytecode(merged[i]) : i \in DOMAIN merged} \subseteq factory_deps_hashes

\* A finished run that consumed two priority transactions which both carry
\* b1, the second one carrying b2 twice as well: b1 and b2 were merged once.
C2_Witness ==
    /\ pc = "done"
    /\ Len(consumed) = 2
    /\ priority_txs[1].factory_deps = <<"b1">>
    /\ priority_txs[2].factory_deps = <<"b2", "b1", "b2">>
    /\ MergedFactoryDeps(result, decoded) = <<"b1", "b2">>

\* C8: the output of a finished run holds one record for every batch decoded
\* from the calldata of the commit transactions, in order, also when a batch
\* number was committed twice; before the end it holds a prefix of them.
C8_NoBatchDeduplication ==
    /\ Len(result) <= Len(decoded)
    /\ \A p \in DOMAIN result :
          /\ result[p].l1_batch_number = decoded[p].l1_batch_number
          /\ result[p].priority_operations_count = decoded[p].priority_operations_count
    /\ pc = "done" => Len(result) = Len(decoded)

\* A finished run whose two commit windows each committed batch 1.
C8_Witness ==
    /\ pc = "done"
    /\ Len(decoded) = 2
    /\ decoded[1].l1_batch_number = 1
    /\ decoded[2].l1_batch_number = 1
    /\ Len(result) = 2

\* What parse_calldata makes of the transaction being processed.
ParsedTx == parse_calldata(config_versioning, tx.block_number, commit_functions, tx.input)

\* C13: process_tx_data calls parse_calldata once for its transaction, and the
\* error of that call (decode or blob error alike) ends the step with that
\* same error; there is no second decode.
C13_DecodeNeverRetried ==
    [][pc = "process_tx" =>
          /\ parse_calls' = 1
          /\ ParsedTx.status = "Err" => (pc' = "panicked" /\ panic' = ParsedTx.err)]_vars

\* A run that ended with the blob storage error of its first decode.
C13_Witness ==
    /\ pc = "panicked"
    /\ panic = "BlobStorageError"
    /\ parse_calls = 1

\* C14: a commit transaction that fails to decode, and a batch that finds the
\* queue used up, end the run; a run that has failed never goes on, and a run
\* that returns has a record for every batch of every commit log it has seen.
C14_FailureFailsTheRun ==
    [][/\ (pc = "process_tx" /\ ParsedTx.status # "Ok")
            => (pc' = "panicked" /\ result' = result /\ decoded' = decoded)
       /\ (pc = "merge" /\ ops_done < blocks[1].priority_operations_count
              /\ last_processed_priority_tx >= Len(priority_txs))
            => pc' = "panicked"
       /\ pc = "panicked" => pc' = "panicked"
       /\ pc' = "done" => (panic' = "" /\ Len(result') = Len(decoded'))]_vars

\* A run that had pushed a batch when a later commit transaction failed to
\* decode.
C14_Witness ==
    /\ pc = "panicked"
    /\ panic \in {"InvalidCalldata", "InvalidCommitBlockInfo", "BlobStorageError"}
    /\ Len(result) >= 1

\* C15: a batch that claims a priority operation when the cursor is at the
\* end of the queue ends the run with a panic and is not pushed; every batch
\* that is pushed has consumed as many priority transactions as it claims.
C15_QueueUnderflowAborts ==
    [][/\ (pc = "merge" /\ ops_done < blocks[1].priority_operations_count
              /\ last_processed_priority_tx >= Len(priority_txs))
            => (pc' = "panicked" /\ panic' = "index out of bounds" /\ result' = result)
       /\ result' # result =>
            Cardinality({i \in DOMAIN consumed' : consumed'[i].batch = Len(result')})
                = result'[Len(result')].priority_operations_count]_vars

\* A batch that claims two priority operations, the second one beyond the end
\* of the queue.
C15_Witness ==
    /\ pc = "panicked"
    /\ panic = "index out of bounds"
    /\ blocks # <<>>
    /\ blocks[1].priority_operations_count = 2
    /\ ops_done = 1

\* The steps on the commit logs of a window.
CommitSteps == {"get_tx", "process_tx", "merge"}

\* C16: a window starts with its priority logs, which are appended to the
\* queue, then its commit logs are fetched, then the transaction of each log
\* is fetched and decoded, one log after the other; so while the commit logs
\* of a window are processed the queue holds every priority transaction
\* logged from the start block to the end of that window.
C16_WindowStepsInOrder ==
    [][/\ pc = "idle" => pc' \in {"fetch_priority_txs", "panicked"}
       /\ pc = "fetch_priority_txs" => pc' \in {"fetch_logs", "panicked"}
       /\ pc' = "fetch_logs" => pc = "fetch_priority_txs"
       /\ pc = "fetch_logs" => pc' \in {"get_tx", "window_end", "panicked"}
       /\ pc = "get_tx" => pc' \in {"process_tx", "panicked"}
       /\ pc = "process_tx" => pc' \in {"merge", "get_tx", "window_end", "panicked"}
       /\ pc = "merge" => pc' \in {"merge", "get_tx", "window_end", "panicked"}
       /\ pc = "window_end" => pc' \in {"fetch_priority_txs", "done"}
       /\ (pc \in CommitSteps /\ pc' = "get_tx") => logs_left' = logs_left - 1
       /\ pc' \in CommitSteps =>
            /\ Len(priority_txs') = next_serial_id'
            /\ \A i \in DOMAIN priority_txs' : priority_txs'[i].serial_id = i - 1]_vars

\* A batch of the second window that consumes a priority transaction logged
\* in the second window.
C16_Witness ==
    /\ pc = "merge"
    /\ windows = 2
    /\ Len(result) = 1
    /\ Len(priority_txs) = 2
    /\ ops_done = 1
    /\ last_processed_priority_tx = 2

Ceil(a, b) == (a + b - 1) \div b

\* C17: a run of get_blocks_to_process comes to an end; it is done exactly
\* when a window ends at end_block, which is after
\* ceil((end_block - start_block + 1) / block_step) windows, and no window
\* reaches beyond end_block.
C17_Terminates ==
    /\ <>(pc \in {"done", "panicked"})
    /\ [](windows >= 1 =>
            /\ start_block <= current_block
            /\ current_block <= filter_to_block
            /\ filter_to_block <= end_block
            /\ current_block = start_block + (windows - 1) * block_step)
    /\ [](pc = "done" =>
            /\ filter_to_block = end_block
            /\ windows = Ceil(end_block - start_block + 1, block_step))
    /\ [][/\ (pc = "window_end" /\ filter_to_block = end_block) => pc' = "done"
          /\ pc' = "done" => (pc = "window_end" /\ filter_to_block = end_block)]_vars

\* A run over three blocks in windows of two: the second window is cut at
\* end_block.
C17_Witness ==
    /\ pc = "done"
    /\ block_step = 2
    /\ start_block = 0
    /\ end_block = 2
    /\ windows = 2
    /\ current_block = 2

IsPriorityFilter(f) == f.event = "NewPriorityRequest"
IsCommitFilter(f) == f.event = "BlockCommit"
PriorityFilters == SelectSeq(filters, IsPriorityFilter)
CommitFilters == SelectSeq(filters, IsCommitFilter)
\* The windows, by their priority-log filters, that hold block b.
WindowsContaining(b) ==
    {k \in DOMAIN PriorityFilters :
        PriorityFilters[k].from_block <= b /\ b <= PriorityFilters[k].to_block}

\* C26: the windows of get_blocks_to_process partition start_block..end_block:
\* the first starts at start_block, every next one after the last block of the
\* one before, a window holds at least one and at most block_step blocks (the
\* assertion of fetch_priority_txs does not fail), no block is in two windows
\* and, when the run is done, every block is in one; the commit-log filter of
\* a window has the bounds of its priority-log filter.
C26_WindowsPartitionRange ==
    /\ panic # "assertion failed: end_block - start_block <= block_step"
    /\ \A k \in DOMAIN filters :
          filters[k].event = IF k % 2 = 1 THEN "NewPriorityRequest" ELSE "BlockCommit"
    /\ windows >= 1 => Len(PriorityFilters) \in {windows - 1, windows}
    /\ \A k \in DOMAIN CommitFilters :
          /\ CommitFilters[k].from_block = PriorityFilters[k].from_block
          /\ CommitFilters[k].to_block = PriorityFilters[k].to_block
    /\ \A k \in DOMAIN PriorityFilters :
          /\ PriorityFilters[k].from_block
                = IF k = 1 THEN start_block ELSE PriorityFilters[k - 1].to_block + 1
          /\ PriorityFilters[k].from_block <= PriorityFilters[k].to_block
          /\ PriorityFilters[k].to_block - PriorityFilters[k].from_block + 1 <= block_step
          /\ PriorityFilters[k].to_block <= end_block
    /\ \A b \in start_block..end_block : Cardinality(WindowsContaining(b)) <= 1
    /\ pc = "done" =>
          \A b \in start_block..end_block : Cardinality(WindowsContaining(b)) = 1

\* A finished run over blocks 0..2 in windows of two blocks: the second window
\* holds block 2 only.
C26_Witness ==
    /\ pc = "done"
    /\ filters = <<LogFilter("NewPriorityRequest", 0, 1), LogFilter("BlockCommit", 0, 1),
                   LogFilter("NewPriorityRequest", 2, 2), LogFilter("BlockCommit", 2, 2)>>

\* Batch a comes before batch b: from an earlier window, or from an earlier
\* commit log of the same window, or earlier in the same calldata array.
OriginBefore(a, b) ==
    \/ a.window < b.window
    \/ a.window = b.window /\ a.logs_left > b.logs_left
    \/ a.window = b.window /\ a.logs_left = b.logs_left /\ a.pos < b.pos

\* C27: the output holds the decoded batches in the order of their windows,
\* within a window of the commit logs, within a commit transaction of the
\* calldata array; a batch is pushed at the end of the output and a batch of
\* the output is neither moved nor removed afterwards.
C27_OutputInOrder ==
    /\ [](/\ Len(origins) = Len(decoded)
          /\ Len(result) <= Len(decoded)
          /\ \A p, q \in DOMAIN origins : p < q => OriginBefore(origins[p], origins[q])
          /\ \A p \in DOMAIN result :
                result[p] = [decoded[p] EXCEPT !.factory_deps = result[p].factory_deps]
          /\ pc = "merge" =>
                /\ Len(decoded) = Len(result) + Len(blocks)
                /\ \A i \in DOMAIN blocks :
                      blocks[i].l1_batch_number = decoded[Len(result) + i].l1_batch_number
          /\ pc = "done" => Len(result) = Len(decoded))
    /\ [][/\ \A p \in DOMAIN result : p \in DOMAIN result' /\ result'[p] = result[p]
          /\ result' # result => (pc = "merge" /\ result' = Append(result, blocks[1]))]_vars

\* A finished run over two windows with a commit transaction each: batch 1
\* of the first window is returned before batch 2 of the second.
C27_Witness ==
    /\ pc = "done"
    /\ origins = <<[window |-> 1, logs_left |-> 1, pos |-> 1],
                   [window |-> 2, logs_left |-> 1, pos |-> 1]>>
    /\ result = <<CommitBlock(1, 0, <<"b1">>), CommitBlock(2, 0, <<>>)>>

\* The bytecodes of deps with every hash once, where it occurs first.
RECURSIVE FirstOccurrences(_)
FirstOccurrences(deps) ==
    IF deps = <<>> THEN <<>>
    ELSE LET front == FirstOccurrences(SubSeq(deps, 1, Len(deps) - 1))
             last == deps[Len(deps)]
         IN  IF \E i \in DOMAIN front : hash_bytecode(front[i]) = hash_bytecode(last)
             THEN front
             ELSE Append(front, last)
\* The factory deps of the first n consumed priority transactions whose batch
\* is at position p of the output or before, in the order of consumption.
RECURSIVE ConsumedDeps(_, _)
ConsumedDeps(n, p) ==
    IF n = 0 THEN <<>>
    ELSE ConsumedDeps(n - 1, p)
            \o (IF consumed[n].batch <= p
                THEN priority_txs[consumed[n].index + 1].factory_deps
                ELSE <<>>)

\* C28: a batch of the output is the batch as decoded but for its factory
\* deps, which are the decoded ones followed by the deps of the priority
\* transactions it consumed, in the order of consumption and of the deps of a
\* transaction, without those whose hash is in the hash set already; a batch
\* without priority operations is pushed as decoded, and the cursor and the
\* hash set are not written for it.
C28_MergeAppendsOnly ==
    /\ [](\A p \in DOMAIN result :
             /\ result[p] = [decoded[p] EXCEPT !.factory_deps = result[p].factory_deps]
             /\ Len(decoded[p].factory_deps) <= Len(result[p].factory_deps)
             /\ SubSeq(result[p].factory_deps, 1, Len(decoded[p].factory_deps))
                   = decoded[p].factory_deps
             /\ MergedFactoryDeps(SubSeq(result, 1, p), decoded)
                   = FirstOccurrences(ConsumedDeps(Len(consumed), p))
             /\ result[p].priority_operations_count = 0 =>
                   (result[p] = decoded[p] /\ ConsumedBy(p) = {}))
    /\ [][(pc = "merge" /\ blocks[1].priority_operations_count = 0) =>
             /\ result' = Append(result, decoded[Len(result) + 1])
             /\ last_processed_priority_tx' = last_processed_priority_tx
             /\ factory_deps_hashes' = factory_deps_hashes]_vars

\* A finished run of two batches that were decoded with the factory dep b1:
\* the first one has no priority operations; the second one consumed a
\* transaction with b1 and one with b2, b1, b2.
C28_Witness ==
    /\ pc = "done"
    /\ Len(result) = 2
    /\ result[1] = CommitBlock(1, 0, <<"b1">>)
    /\ decoded[2] = CommitBlock(2, 2, <<"b1">>)
    /\ priority_txs[1].factory_deps = <<"b1">>
    /\ priority_txs[2].factory_deps = <<"b2", "b1", "b2">>
    /\ result[2].factory_deps = <<"b1", "b1", "b2">>

\* C31 as claimed: at the start of every window priority_txs_so_far is the
\* number of priority transactions queued by the windows before, and the
\* subtraction priority_txs.len() - priority_txs_so_far does not underflow.
C31_CounterIsQueueLength ==
    /\ pc = "fetch_priority_txs" => priority_txs_so_far = Len(priority_txs)
    /\ panic # "attempt to subtract with overflow"

\* The priority operations of all batches.
OpsOf(batches) == OpsBefore(batches, Len(batches) + 1)

\* C32: the cursor is between 0 and the length of the queue; the queue is
\* only appended to; the batch at position p of the output consumed the
\* transactions that follow those of the batches before it, also when it is a
\* batch that is in the output already; when the run is done the cursor is the
\* sum of priority_operations_count over the output.
C32_CursorWithinQueue ==
    /\ [](last_processed_priority_tx \in 0..Len(priority_txs))
    /\ [](\A p \in DOMAIN result :
             {consumed[i].index : i \in ConsumedBy(p)}
                = OpsBefore(result, p)..(OpsBefore(result, p + 1) - 1))
    /\ [](pc = "done" => last_processed_priority_tx = OpsOf(result))
    /\ [][/\ Len(priority_txs) <= Len(priority_txs')
          /\ SubSeq(priority_txs', 1, Len(priority_txs)) = priority_txs
          /\ last_processed_priority_tx' \in {last_processed_priority_tx,
                                              last_processed_priority_tx + 1}]_vars

\* A finished run that returns the same batch record twice: the first
\* occurrence consumed the first transaction of the queue, the second
\* occurrence the second.
C32_Witness ==
    /\ pc = "done"
    /\ result = <<CommitBlock(1, 1, <<>>), CommitBlock(1, 1, <<>>)>>
    /\ last_processed_priority_tx = 2
    /\ consumed[1].batch = 1 /\ consumed[1].index = 0
    /\ consumed[2].batch = 2 /\ consumed[2].index = 1

\* C9: no logical request to the L1 client sends more than MAX_RETRIES
\* requests.
C9_AtMostMaxRetriesRequests == requests <= MAX_RETRIES

SingleRetryCall == call_site \in {"logs", "block"}

\* C29: a retry_call whose callback is one client request returns Ok with the
\* first request that succeeds, after a backoff for every request that failed
\* before, and sends no request afterwards; it returns the error after
\* MAX_RETRIES requests that all failed and a backoff after each of them, the
\* last one included.
C29_FirstSuccessOrMaxRetriesFailures ==
    /\ [](SingleRetryCall =>
            /\ attempt \in 1..MAX_RETRIES
            /\ call_result = "pending" => (requests = attempt - 1 /\ sleeps = requests)
            /\ call_result = "Ok" => (requests = attempt /\ sleeps = requests - 1)
            /\ call_result = "Err" => (requests = MAX_RETRIES /\ sleeps = MAX_RETRIES))
    /\ [][(SingleRetryCall /\ call_result \in {"Ok", "Err"}) =>
             UNCHANGED <<call_result, attempt, requests, sleeps>>]_vars

\* The log query failed five times: five requests, five backoffs, the error.
C29_Witness ==
    /\ call_site = "logs"
    /\ call_result = "Err"
    /\ requests = 5
    /\ sleeps = 5

(***************************************************************************)
(* Claims about EthTxManagerLayer                                          *)
(***************************************************************************)

GatewayMode == is_gateway(eth_sender_config.gas_adjuster[1].settlement_mode)

\* C37: the manager built by wire gets, in gateway mode, no L1 client and no
\* blobs client but the L2 client; in the other mode the L1 client, the blobs
\* client exactly when the input has one, and no L2 client; it never gets
\* both an L1 and an L2 client, nor neither.
C37_ClientsBySettlementMode ==
    wire_output.status = "Ok" =>
        LET manager == wire_output.eth_tx_manager
        IN  /\ GatewayMode =>
                  /\ manager.ethereum_gateway = None
                  /\ manager.ethereum_gateway_blobs = None
                  /\ manager.l2_gateway = Some(wire_input.eth_client)
            /\ ~GatewayMode =>
                  /\ manager.ethereum_gateway = Some(wire_input.eth_client)
                  /\ manager.ethereum_gateway_blobs = wire_input.eth_client_blobs
                  /\ manager.l2_gateway = None
            /\ (manager.ethereum_gateway = None) # (manager.l2_gateway = None)

\* A layer in gateway mode whose input has a client for blobs.
C37_Witness ==
    /\ wire_output.status = "Ok"
    /\ GatewayMode
    /\ wire_input.eth_client_blobs # None
    /\ wire_output.eth_tx_manager.l2_gateway # None

(***************************************************************************)
(* Claims about WitnessVectorGeneratorJobSaver                             *)
(***************************************************************************)

\* The messages of the calls that had a successful job result and returned
\* Ok, in the order of the calls.
RECURSIVE Forwarded(_)
Forwarded(returned) ==
    IF returned = <<>> THEN <<>>
    ELSE LET front == Forwarded(SubSeq(returned, 1, Len(returned) - 1))
             last == returned[Len(returned)]
         IN  IF last.data.result.ok /\ last.returned = "Ok"
             THEN Append(front, <<last.data.result.payload, last.data.metadata>>)
             ELSE front

\* C38: the messages sent on the channel are the payloads of the successful
\* job results with their metadata, each once, in the order of the calls; a
\* call with a failed job result sends nothing and returns Ok; a call returns
\* an error only for a successful job result whose send failed because the
\* receiver was closed, and then nothing was sent for it.
C38_ForwardsSuccessfulResults ==
    /\ [](sent = Forwarded(saves))
    /\ [](\A k \in DOMAIN saves :
             /\ ~saves[k].data.result.ok => saves[k].returned = "Ok"
             /\ saves[k].returned = "Err" => (saves[k].data.result.ok /\ receiver_closed))
    /\ [][/\ sent' # sent => (~receiver_closed /\ Len(sent') = Len(sent) + 1
                             /\ SubSeq(sent', 1, Len(sent)) = sent)
          /\ (Len(saves') > Len(saves) /\ ~saves'[Len(saves')].data.result.ok) =>
                sent' = sent
          /\ receiver_closed => receiver_closed']_vars

\* Three calls: a successful result that is sent, a failed result that is
\* dropped, and a successful result after the receiver was closed.
C38_Witness ==
    /\ Len(saves) = 3
    /\ saves[1] = Saved([result |-> JobOk("w1"), metadata |-> 2], "Ok")
    /\ saves[2] = Saved([result |-> JobErr, metadata |-> 1], "Ok")
    /\ saves[3] = Saved([result |-> JobOk("w2"), metadata |-> 1], "Err")
    /\ sent = <<<<"w1", 2>>>>

====
